---- MODULE Spec2Model ----
(***************************************************************************)
(* Model of sshproxy: the client Dialer, the Exec stream, the server's     *)
(* authentication chain and the permission cache.                          *)
(*                                                                         *)
(* The repository holds the Dialer in more than one iteration:             *)
(*   - src/unnamed/part_003:1-275, the channel-backed pool: a counter      *)
(*     `conns` and a buffered channel `clients` (SpecChan);                *)
(*   - src/unnamed/part_003:276-515, the single shared client (SpecSingle);*)
(*   - src/client.go, the sync.Pool-backed pool guarded by `mut` for the   *)
(*     handshake (SpecPool).                                               *)
(* SpecExec is the stream CommandDialContext returns (src/client.go),      *)
(* SpecAuth the SimpleServer (src/simple_server.go), SpecAllow and         *)
(* SpecPerm the permissions package (src/unnamed/part_002).                *)
(* Each is a specification of its own over the same variables; the         *)
(* variables of the others stay at their initial value.                    *)
(***************************************************************************)
EXTENDS Integers, Sequences, FiniteSets

\* ------------------------------------------------------------------ bounds

\* Number of concurrent callers (goroutines calling into one Dialer).
NumCallers == 2

\* The small capacities of the clients channel the model ranges over: 1..MaxCap.
MaxCap == 2

\* Transport handles the sync.Pool-backed Dialer may open in one run.
MaxHandles == 2

\* Times a user calls Close on one listener.
MaxCloses == 2

\* A user closes a listener again only while its client has fewer than
\* MaxCopies references (the pool would otherwise grow without bound).
MaxCopies == 2

\* Exec streams (successful CommandDialContext calls) in one run.
NumStreams == 1

\* Times a user calls Close on one Exec stream.
MaxStreamCloses == 2

\* Longest principal name and password in the server's URI.
MaxStrLen == 1

\* Longest allow-list and block-list of a permission rule.
MaxListLen == 2

\* The refresh period of the permission cache, in ticks of the clock.
Period == 1

\* The clock stops at MaxTime.
MaxTime == 3

\* Longest value of a duration parameter in a URI.
MaxDurLen == 2

\* Longest address given to Listen.
MaxAddrLen == 4

Callers == 1..NumCallers

Streams == 1..NumStreams

\* make(chan *ssh.Client, 5): the capacity NewDialerWithConfig gives the pool.
ClientsCap == 5

\* The capacities of the clients channel: the one of the source, and the
\* small ones, which NumCallers callers can fill.
Capacities == (1..MaxCap) \cup {ClientsCap}

\* Handle identities. The channel-backed Dialer opens at most one handle per
\* successful increment of conns, and a caller increments conns only below
\* the capacity: never more than capacity + NumCallers - 1.
ChanHandles == 1..(ClientsCap + MaxCap + NumCallers - 1)

PoolHandles == 1..MaxHandles

Handles == ChanHandles \cup PoolHandles

\* The nil *ssh.Client.
Nil == 0

VARIABLES
    pc,         \* per caller: the place in the code it is at
    op,         \* per caller: the exported method it is running
    cli,        \* per caller: the local variable cli
    ctxDone,    \* per caller: ctx.Done() of the call in flight is closed
    acq,        \* per caller: what getClient/GetClient returned to this call
    res,        \* per caller: what the exported method returned
    tries,      \* per caller: attempts of the remote operation in this call
    rel,        \* per caller: releases + invalidations of the acquired handle
    hstate,     \* per handle: "unopened", "open", "dead" (an operation found
                \* the transport dead; not closed) or "closed"
    capacity,   \* cap(d.clients)
    conns,      \* d.conns
    clients,    \* d.clients, the buffered channel
    pool,       \* d.pool: how many times each handle is in the sync.Pool
    mut,        \* d.mut: the caller holding it, or Nil
    lis,        \* per caller: the listener Listen returned to it
    sshCli,     \* d.sshCli of the single-client Dialer, or Nil
    retry,      \* per caller: the parameter retry of dialContext, listen, ...
    proc,       \* per stream: the remote process: "none", "running", "exited"
    parentDone, \* per stream: the caller's ctx is done
    cancelled,  \* per stream: cancel() of context.WithCancel(ctx) was called
    waiter,     \* per stream: the goroutine running sess.Wait(); cancel()
    killer,     \* per stream: the goroutine waiting on ctx.Done()
    released,   \* per stream: calls of sess.Signal, sess.Close, conn1.Close
    closeCalls, \* per stream: calls of Close on the returned conn
    closeErr,   \* per stream: what the last Close on the conn returned
    addr,       \* the URI given to NewSimpleServer
    srv,        \* the SimpleServer built from addr
    homeFiles,  \* per principal: its authorized-keys file under home_dir
    att,        \* the last request the server decided and its outcome
    client,     \* the client configuration parsed from s.ProxyURL()
    now,        \* the clock
    file,       \* the permission file at s.path
    permissions,\* s.permissions
    latestTime, \* s.latestTime
    call        \* per caller: the Allow call of PermissionsFromFile in flight

callerVars == <<pc, op, cli, ctxDone, acq, res, tries, rel>>
handleVars == <<hstate>>
chanVars == <<capacity, conns, clients>>
poolVars == <<pool, mut, lis>>
singleVars == <<sshCli, retry>>
dialerVars == <<callerVars, handleVars, chanVars, poolVars, singleVars>>
execVars == <<proc, parentDone, cancelled, waiter, killer, released,
              closeCalls, closeErr>>
authVars == <<addr, srv, homeFiles, att, client>>
permVars == <<now, file, permissions, latestTime, call>>
vars == <<pc, op, cli, ctxDone, acq, res, tries, rel, hstate,
          capacity, conns, clients, pool, mut, lis, sshCli, retry,
          proc, parentDone, cancelled, waiter, killer, released,
          closeCalls, closeErr, addr, srv, homeFiles, att, client,
          now, file, permissions, latestTime, call>>

\* ------------------------------------------------------------- helpers

Min(S) == CHOOSE x \in S : \A y \in S : x <= y

\* The handles opened and not destroyed.
LiveHandles == {h \in Handles : hstate[h] \in {"open", "dead"}}

LiveCount == Cardinality(LiveHandles)

NoListener == [cli |-> Nil, closes |-> 0, cleanups |-> 0, remoteClosed |-> FALSE]

CallerInit ==
    /\ pc = [c \in Callers |-> "idle"]
    /\ op = [c \in Callers |-> "none"]
    /\ cli = [c \in Callers |-> Nil]
    /\ ctxDone = [c \in Callers |-> FALSE]
    /\ acq = [c \in Callers |-> "none"]
    /\ res = [c \in Callers |-> "none"]
    /\ tries = [c \in Callers |-> 0]
    /\ rel = [c \in Callers |-> 0]

HandleInit == hstate = [h \in Handles |-> "unopened"]

\* The single-client Dialer's fields, in the specifications of the others.
SingleUnused ==
    /\ sshCli = Nil
    /\ retry = [c \in Callers |-> 0]

\* No Exec stream has been started.
ExecUnused ==
    /\ proc = [s \in Streams |-> "none"]
    /\ parentDone = [s \in Streams |-> FALSE]
    /\ cancelled = [s \in Streams |-> FALSE]
    /\ waiter = [s \in Streams |-> "none"]
    /\ killer = [s \in Streams |-> "none"]
    /\ released = [s \in Streams |-> [signal |-> 0, sess |-> 0, pipe |-> 0]]
    /\ closeCalls = [s \in Streams |-> 0]
    /\ closeErr = [s \in Streams |-> "none"]

\* The principals whose authorized-keys files under home_dir the model holds.
KeyPrincipals == {<<"u">>, <<"v">>}

NoAddr == [authority |-> <<"h">>, authorized |-> "none",
           homeDir |-> FALSE, authenticate |-> FALSE]

NoServer == [built |-> FALSE, Username |-> <<>>, Password |-> <<>>,
             PasswordCallback |-> FALSE, user |-> <<>>, pwd |-> <<>>,
             pks |-> <<>>, NoClientAuth |-> FALSE]

NoAttempt == [kind |-> "none", user |-> <<>>, password |-> <<>>, key |-> "none",
              consulted |-> <<>>, result |-> "none", err |-> "none"]

NoClient == [built |-> FALSE, User |-> <<>>, pwd |-> <<>>, isPwd |-> FALSE]

\* No server has been configured.
AuthUnused ==
    /\ addr = NoAddr
    /\ srv = NoServer
    /\ homeFiles = [p \in KeyPrincipals |-> [exists |-> FALSE, keys |-> {}]]
    /\ att = NoAttempt
    /\ client = NoClient

\* time.Time{}, the zero time of s.latestTime.
ZeroTime == -1

\* A permission document with no rule; a nil *Permissions has it as doc.
NoDoc == <<>>

NilPermissions == [nil |-> TRUE, doc |-> NoDoc]

NoCall == [pc |-> "idle", req |-> "none", args |-> "none",
           perm |-> NilPermissions, latest |-> ZeroTime,
           read |-> NilPermissions, checkedAt |-> 0, result |-> "none"]

\* No permission cache is in use.
PermUnused ==
    /\ now = 0
    /\ file = [kind |-> "absent", doc |-> NoDoc]
    /\ permissions = NilPermissions
    /\ latestTime = ZeroTime
    /\ call = [c \in Callers |-> NoCall]

\* A new call starts with a live context and no result.
Begin(c, o, at) ==
    /\ pc[c] = "idle"
    /\ pc' = [pc EXCEPT ![c] = at]
    /\ op' = [op EXCEPT ![c] = o]
    /\ cli' = [cli EXCEPT ![c] = Nil]
    /\ ctxDone' = [ctxDone EXCEPT ![c] = FALSE]
    /\ acq' = [acq EXCEPT ![c] = "none"]
    /\ res' = [res EXCEPT ![c] = "none"]
    /\ tries' = [tries EXCEPT ![c] = 0]
    /\ rel' = [rel EXCEPT ![c] = 0]

\* The caller drops what the call returned and is ready for its next call.
Forget(c) ==
    /\ pc' = [pc EXCEPT ![c] = "idle"]
    /\ op' = [op EXCEPT ![c] = "none"]
    /\ cli' = [cli EXCEPT ![c] = Nil]
    /\ ctxDone' = [ctxDone EXCEPT ![c] = FALSE]
    /\ acq' = [acq EXCEPT ![c] = "none"]
    /\ res' = [res EXCEPT ![c] = "none"]
    /\ tries' = [tries EXCEPT ![c] = 0]
    /\ rel' = [rel EXCEPT ![c] = 0]

\* ============================================================ SpecChan
\* The channel-backed Dialer of src/unnamed/part_003:1-275.

ChanOps == {"DialContext", "Listen", "CommandDialContext", "SSHClient"}

\* The places of getClient: a call there is an Acquire in flight.
ChanGetPhases == {"check", "add", "dial", "handshake", "select"}

NewDialerWithConfig ==
    /\ capacity \in Capacities
    /\ conns = 0
    /\ clients = <<>>

\* A caller enters DialContext, Listen, CommandDialContext or SSHClient; each
\* begins with getClient(ctx).
chanCall(c) ==
    /\ \E o \in ChanOps : Begin(c, o, "check")
    /\ UNCHANGED <<handleVars, chanVars, poolVars, singleVars>>
    /\ UNCHANGED <<execVars, authVars, permVars>>

\* The caller's context is cancelled while its getClient is in flight.
chanCancel(c) ==
    /\ pc[c] \in ChanGetPhases
    /\ ~ctxDone[c]
    /\ ctxDone' = [ctxDone EXCEPT ![c] = TRUE]
    /\ UNCHANGED <<pc, op, cli, acq, res, tries, rel, handleVars, chanVars, poolVars, singleVars>>
    /\ UNCHANGED <<execVars, authVars, permVars>>

\* The test of getClient's first line: the counter has reached the capacity.
PoolFull(n, k) == n >= k

\* getClient: if atomic.LoadInt32(&d.conns) >= int32(cap(d.clients))
getClientCheck(c) ==
    /\ pc[c] = "check"
    /\ pc' = [pc EXCEPT ![c] = IF PoolFull(conns, capacity) THEN "select" ELSE "add"]
    /\ UNCHANGED <<op, cli, ctxDone, acq, res, tries, rel, handleVars, chanVars, poolVars, singleVars>>
    /\ UNCHANGED <<execVars, authVars, permVars>>

\* getClient: case <-ctx.Done(): return nil, ctx.Err()
getClientSelectDone(c) ==
    /\ pc[c] = "select"
    /\ ctxDone[c]
    /\ acq' = [acq EXCEPT ![c] = "ctx"]
    /\ res' = [res EXCEPT ![c] = "ctx"]
    /\ pc' = [pc EXCEPT ![c] = "ret"]
    /\ UNCHANGED <<op, cli, ctxDone, tries, rel, handleVars, chanVars, poolVars, singleVars>>
    /\ UNCHANGED <<execVars, authVars, permVars>>

\* getClient: case cli := <-d.clients: return cli, nil
getClientSelectRecv(c) ==
    /\ pc[c] = "select"
    /\ clients # <<>>
    /\ cli' = [cli EXCEPT ![c] = Head(clients)]
    /\ clients' = Tail(clients)
    /\ acq' = [acq EXCEPT ![c] = "handle"]
    /\ pc' = [pc EXCEPT ![c] = IF op[c] = "SSHClient" THEN "put" ELSE "use"]
    /\ UNCHANGED <<op, ctxDone, res, tries, rel, handleVars, capacity, conns, poolVars, singleVars>>
    /\ UNCHANGED <<execVars, authVars, permVars>>

\* getClient: atomic.AddInt32(&d.conns, 1)
getClientAdd(c) ==
    /\ pc[c] = "add"
    /\ conns' = conns + 1
    /\ pc' = [pc EXCEPT ![c] = "dial"]
    /\ UNCHANGED <<op, cli, ctxDone, acq, res, tries, rel, handleVars, capacity, clients, poolVars, singleVars>>
    /\ UNCHANGED <<execVars, authVars, permVars>>

\* sshClient: d.proxyDial(ctx, "tcp", d.host). The dial takes the context: it
\* fails once the context is done, and may fail on its own. On failure
\* getClient takes its increment back and returns the error.
chanProxyDial(c) ==
    /\ pc[c] = "dial"
    /\ \/ /\ ~ctxDone[c]
          /\ pc' = [pc EXCEPT ![c] = "handshake"]
          /\ UNCHANGED <<acq, res, conns>>
       \/ /\ conns' = conns - 1
          /\ acq' = [acq EXCEPT ![c] = IF ctxDone[c] THEN "ctx" ELSE "openErr"]
          /\ res' = [res EXCEPT ![c] = IF ctxDone[c] THEN "ctx" ELSE "openErr"]
          /\ pc' = [pc EXCEPT ![c] = "ret"]
    /\ UNCHANGED <<op, cli, ctxDone, tries, rel, handleVars, capacity, clients, poolVars, singleVars>>
    /\ UNCHANGED <<execVars, authVars, permVars>>

\* sshClient: ssh.NewClientConn(conn, d.host, d.config) and ssh.NewClient. The
\* handshake takes no context. On success getClient returns the new client;
\* on failure it takes its increment back and returns the error.
chanNewClientConn(c) ==
    /\ pc[c] = "handshake"
    /\ \/ /\ \E S \in {{h \in ChanHandles : hstate[h] = "unopened"}} :
                /\ S # {}
                /\ hstate' = [hstate EXCEPT ![Min(S)] = "open"]
                /\ cli' = [cli EXCEPT ![c] = Min(S)]
          /\ acq' = [acq EXCEPT ![c] = "handle"]
          /\ pc' = [pc EXCEPT ![c] = IF op[c] = "SSHClient" THEN "put" ELSE "use"]
          /\ UNCHANGED <<res, conns>>
       \/ /\ conns' = conns - 1
          /\ acq' = [acq EXCEPT ![c] = "openErr"]
          /\ res' = [res EXCEPT ![c] = "openErr"]
          /\ pc' = [pc EXCEPT ![c] = "ret"]
          /\ UNCHANGED <<cli, hstate>>
    /\ UNCHANGED <<op, ctxDone, tries, rel, capacity, clients, poolVars, singleVars>>
    /\ UNCHANGED <<execVars, authVars, permVars>>

\* DialContext, Listen, CommandDialContext after getClient: the remote
\* operation on cli (cli.DialContext, cli.Listen, cli.NewSession and
\* sess.Start) succeeds or fails; either way the deferred putClient is next.
chanUse(c) ==
    /\ pc[c] = "use"
    /\ tries' = [tries EXCEPT ![c] = tries[c] + 1]
    /\ \E r \in {"ok", "err"} : res' = [res EXCEPT ![c] = r]
    /\ pc' = [pc EXCEPT ![c] = "put"]
    /\ UNCHANGED <<op, cli, ctxDone, acq, rel, handleVars, chanVars, poolVars, singleVars>>
    /\ UNCHANGED <<execVars, authVars, permVars>>

\* putClient: d.clients <- cli. The send blocks while the channel is full.
\* SSHClient returns cli to its caller after it.
putClient(c) ==
    /\ pc[c] = "put"
    /\ Len(clients) < capacity
    /\ clients' = Append(clients, cli[c])
    /\ rel' = [rel EXCEPT ![c] = rel[c] + 1]
    /\ res' = [res EXCEPT ![c] = IF op[c] = "SSHClient" THEN "ok" ELSE res[c]]
    /\ pc' = [pc EXCEPT ![c] = "ret"]
    /\ UNCHANGED <<op, cli, ctxDone, acq, tries, hstate, capacity, conns, poolVars, singleVars>>
    /\ UNCHANGED <<execVars, authVars, permVars>>

\* The caller is done with what the method returned (for SSHClient: with the
\* *ssh.Client it was handed).
chanReturn(c) ==
    /\ pc[c] = "ret"
    /\ Forget(c)
    /\ UNCHANGED <<handleVars, chanVars, poolVars, singleVars>>
    /\ UNCHANGED <<execVars, authVars, permVars>>

InitChan ==
    /\ ExecUnused
    /\ AuthUnused
    /\ PermUnused
    /\ CallerInit
    /\ HandleInit
    /\ NewDialerWithConfig
    /\ pool = [h \in Handles |-> 0]
    /\ mut = Nil
    /\ lis = [c \in Callers |-> NoListener]
    /\ SingleUnused

NextChan ==
    \E c \in Callers :
        \/ chanCall(c)
        \/ chanCancel(c)
        \/ getClientCheck(c)
        \/ getClientSelectDone(c)
        \/ getClientSelectRecv(c)
        \/ getClientAdd(c)
        \/ chanProxyDial(c)
        \/ chanNewClientConn(c)
        \/ chanUse(c)
        \/ putClient(c)
        \/ chanReturn(c)

SpecChan == InitChan /\ [][NextChan]_vars

\* ============================================================ SpecPool
\* The sync.Pool-backed Dialer of src/client.go.

PoolOps == {"DialContext", "Listen", "CommandDialContext", "SSHClient", "Close"}

\* The places of GetClient: a call there is an Acquire in flight.
PoolGetPhases == {"get", "lock", "dial", "handshake"}

\* What a remote operation on a client returns: "ok" or one of these errors.
\*   rejected    the server refused this request; the connection is healthy
\*   disconnect  the connection is gone; reported by the ssh package
\*   EOF         the connection is gone; reported by the network layer
\*   canceled    ctx.Err() of cli.DialContext
Errors == {"rejected", "disconnect", "EOF", "canceled"}

\* err.Error(), as the pieces of text it is made of.
ErrMsg(e) ==
    CASE e = "rejected" -> <<"ssh: ", "rejected: ", "administratively prohibited">>
      [] e = "disconnect" -> <<"ssh: ", "disconnect, reason 11">>
      [] e = "EOF" -> <<"EOF">>
      [] e = "canceled" -> <<"context canceled">>
      [] OTHER -> <<>>

\* Whether the failure is of the request (protocol), of the connection
\* (transport) or of the caller's scope (cancel).
ErrKind(e) ==
    CASE e = "rejected" -> "protocol"
      [] e \in {"disconnect", "EOF"} -> "transport"
      [] e = "canceled" -> "cancel"
      [] OTHER -> "none"

isSSHErrorMutant(e) == ~(\E i \in DOMAIN ErrMsg(e) : ErrMsg(e)[i] = "ssh: ")

\* isSSHError: strings.Contains(err.Error(), "ssh: ")
isSSHError(e) == \E i \in DOMAIN ErrMsg(e) : ErrMsg(e)[i] = "ssh: "

\* The outcomes of a remote operation on handle h: a closed or dead transport
\* only fails.
RemoteOutcomes(h) ==
    IF hstate[h] = "open"
       THEN {"ok", "rejected", "disconnect", "EOF"}
       ELSE {"disconnect", "EOF"}

\* The outcomes of a remote operation of caller c on handle h; only
\* cli.DialContext watches the context.
Outcomes(c, h) ==
    RemoteOutcomes(h)
    \cup (IF op[c] = "DialContext" /\ ctxDone[c] THEN {"canceled"} ELSE {})

\* A transport-level failure is the transport found dead.
FoundDead(h, e) ==
    IF ErrKind(e) = "transport" /\ hstate[h] = "open"
       THEN [hstate EXCEPT ![h] = "dead"]
       ELSE hstate

\* d.pool.Get(): some client of the pool, or nil. Get may return nil although
\* the pool holds clients (sync.Pool may treat itself as empty).
PoolGet == {h \in PoolHandles : pool[h] > 0} \cup {Nil}

\* d.pool.Put(cli)
PoolPut(h) == [pool EXCEPT ![h] = pool[h] + 1]

PoolTake(h) == [pool EXCEPT ![h] = pool[h] - 1]

\* The callers that hold handle h: in an operation between GetClient and the
\* release, through an open listener, or as the user SSHClient returned it to.
PoolHolders(h) ==
    {c \in Callers :
        /\ cli[c] = h
        /\ \/ pc[c] \in {"use", "start"}
           \/ pc[c] = "listening" /\ lis[c].closes = 0
           \/ pc[c] = "ret" /\ op[c] = "SSHClient" /\ acq[c] = "handle" /\ rel[c] = 0}

\* The references to handle h: in the pool and with callers.
Copies(h) == pool[h] + Cardinality(PoolHolders(h))

\* Clients in the pool, counted with repetition.
IdleCopies ==
    LET Sum[n \in 0..MaxHandles] == IF n = 0 THEN 0 ELSE Sum[n - 1] + pool[n]
    IN  Sum[MaxHandles]

\* A caller enters DialContext, Listen, CommandDialContext, SSHClient or
\* Close. All but Close begin with GetClient(ctx).
poolCall(c) ==
    /\ \E o \in PoolOps : Begin(c, o, IF o = "Close" THEN "closing" ELSE "get")
    /\ UNCHANGED <<handleVars, chanVars, singleVars, poolVars>>
    /\ UNCHANGED <<execVars, authVars, permVars>>

\* The caller's context is cancelled while its GetClient is in flight.
poolCancel(c) ==
    /\ pc[c] \in PoolGetPhases
    /\ ~ctxDone[c]
    /\ ctxDone' = [ctxDone EXCEPT ![c] = TRUE]
    /\ UNCHANGED <<pc, op, cli, acq, res, tries, rel, handleVars, chanVars, singleVars, poolVars>>
    /\ UNCHANGED <<execVars, authVars, permVars>>

\* Where a call goes once GetClient has returned a client: SSHClient returns
\* it to the user, the others use it.
AfterGet(c) == IF op[c] = "SSHClient" THEN "ret" ELSE "use"

\* GetClient: a := d.pool.Get(); if a != nil { return a.(*ssh.Client), nil }
GetClientFirst(c) ==
    /\ pc[c] = "get"
    /\ \E a \in PoolGet :
          IF a # Nil
             THEN /\ pool' = PoolTake(a)
                  /\ cli' = [cli EXCEPT ![c] = a]
                  /\ acq' = [acq EXCEPT ![c] = "handle"]
                  /\ res' = [res EXCEPT ![c] = IF op[c] = "SSHClient" THEN "ok" ELSE res[c]]
                  /\ pc' = [pc EXCEPT ![c] = AfterGet(c)]
             ELSE /\ pc' = [pc EXCEPT ![c] = "lock"]
                  /\ UNCHANGED <<pool, cli, acq, res>>
    /\ UNCHANGED <<op, ctxDone, tries, rel, handleVars, chanVars, singleVars, mut, lis>>
    /\ UNCHANGED <<execVars, authVars, permVars>>

\* GetClient: d.mut.Lock(); a = d.pool.Get(); if a != nil { return ... } with
\* the deferred d.mut.Unlock(). Lock waits for the mutex whatever the context.
GetClientLocked(c) ==
    /\ pc[c] = "lock"
    /\ mut = Nil
    /\ \E a \in PoolGet :
          IF a # Nil
             THEN /\ pool' = PoolTake(a)
                  /\ cli' = [cli EXCEPT ![c] = a]
                  /\ acq' = [acq EXCEPT ![c] = "handle"]
                  /\ res' = [res EXCEPT ![c] = IF op[c] = "SSHClient" THEN "ok" ELSE res[c]]
                  /\ pc' = [pc EXCEPT ![c] = AfterGet(c)]
                  /\ UNCHANGED mut
             ELSE /\ mut' = c
                  /\ pc' = [pc EXCEPT ![c] = "dial"]
                  /\ UNCHANGED <<pool, cli, acq, res>>
    /\ UNCHANGED <<op, ctxDone, tries, rel, handleVars, chanVars, singleVars, lis>>
    /\ UNCHANGED <<execVars, authVars, permVars>>

\* sshClient: d.proxyDial(ctx, "tcp", d.host), under d.mut. The dial fails
\* once the context is done, and may fail on its own; GetClient then returns
\* the error and unlocks.
poolProxyDial(c) ==
    /\ pc[c] = "dial"
    /\ \/ /\ ~ctxDone[c]
          /\ pc' = [pc EXCEPT ![c] = "handshake"]
          /\ UNCHANGED <<acq, res, mut>>
       \/ /\ acq' = [acq EXCEPT ![c] = IF ctxDone[c] THEN "ctx" ELSE "openErr"]
          /\ res' = [res EXCEPT ![c] = IF ctxDone[c] THEN "ctx" ELSE "openErr"]
          /\ mut' = Nil
          /\ pc' = [pc EXCEPT ![c] = "ret"]
    /\ UNCHANGED <<op, cli, ctxDone, tries, rel, handleVars, chanVars, singleVars, pool, lis>>
    /\ UNCHANGED <<execVars, authVars, permVars>>

\* sshClient: ssh.NewClientConn and ssh.NewClient, under d.mut. The handshake
\* takes no context. GetClient returns the client or the error and unlocks.
poolNewClientConn(c) ==
    /\ pc[c] = "handshake"
    /\ \/ /\ \E S \in {{h \in PoolHandles : hstate[h] = "unopened"}} :
                /\ S # {}
                /\ hstate' = [hstate EXCEPT ![Min(S)] = "open"]
                /\ cli' = [cli EXCEPT ![c] = Min(S)]
          /\ acq' = [acq EXCEPT ![c] = "handle"]
          /\ res' = [res EXCEPT ![c] = IF op[c] = "SSHClient" THEN "ok" ELSE res[c]]
          /\ pc' = [pc EXCEPT ![c] = AfterGet(c)]
       \/ /\ acq' = [acq EXCEPT ![c] = "openErr"]
          /\ res' = [res EXCEPT ![c] = "openErr"]
          /\ pc' = [pc EXCEPT ![c] = "ret"]
          /\ UNCHANGED <<cli, hstate>>
    /\ mut' = Nil
    /\ UNCHANGED <<op, ctxDone, tries, rel, chanVars, singleVars, pool, lis>>
    /\ UNCHANGED <<execVars, authVars, permVars>>

\* The error branch shared by DialContext, Dial, Listen and the NewSession of
\* CommandDialContext:
\*     if isSSHError(err) { d.PutClient(cli) } else { cli.Close() }
\*     return nil, err
OnError(c, e) ==
    /\ IF isSSHError(e)
          THEN /\ pool' = PoolPut(cli[c])
               /\ hstate' = FoundDead(cli[c], e)
          ELSE /\ hstate' = [hstate EXCEPT ![cli[c]] = "closed"]
               /\ pool' = pool
    /\ rel' = [rel EXCEPT ![c] = rel[c] + 1]
    /\ res' = [res EXCEPT ![c] = e]
    /\ pc' = [pc EXCEPT ![c] = "ret"]

\* DialContext (and Dial, the same code under context.Background()):
\* cli.DialContext(ctx, network, address); on success d.PutClient(cli) and
\* the connection is returned.
DialContext(c) ==
    /\ pc[c] = "use"
    /\ op[c] = "DialContext"
    /\ tries' = [tries EXCEPT ![c] = tries[c] + 1]
    /\ \E e \in Outcomes(c, cli[c]) :
          IF e = "ok"
             THEN /\ pool' = PoolPut(cli[c])
                  /\ rel' = [rel EXCEPT ![c] = rel[c] + 1]
                  /\ res' = [res EXCEPT ![c] = "ok"]
                  /\ pc' = [pc EXCEPT ![c] = "ret"]
                  /\ UNCHANGED hstate
             ELSE OnError(c, e)
    /\ UNCHANGED <<op, cli, ctxDone, acq, chanVars, singleVars, mut, lis>>
    /\ UNCHANGED <<execVars, authVars, permVars>>

\* Listen: cli.Listen(network, address); on success the client stays with
\* the returned listenerWithCleanup, whose cleanup is d.PutClient(cli).
Listen(c) ==
    /\ pc[c] = "use"
    /\ op[c] = "Listen"
    /\ tries' = [tries EXCEPT ![c] = tries[c] + 1]
    /\ \E e \in Outcomes(c, cli[c]) :
          IF e = "ok"
             THEN /\ lis' = [lis EXCEPT ![c] =
                                [cli |-> cli[c], closes |-> 0, cleanups |-> 0,
                                 remoteClosed |-> FALSE]]
                  /\ res' = [res EXCEPT ![c] = "ok"]
                  /\ pc' = [pc EXCEPT ![c] = "listening"]
                  /\ UNCHANGED <<pool, rel, hstate>>
             ELSE /\ OnError(c, e)
                  /\ UNCHANGED lis
    /\ UNCHANGED <<op, cli, ctxDone, acq, chanVars, singleVars, mut>>
    /\ UNCHANGED <<execVars, authVars, permVars>>

\* listenerWithCleanup.Close: err := l.Listener.Close(); l.cleanup(). The
\* user may call it again on the same listener.
listenerClose(c) ==
    /\ pc[c] = "listening"
    /\ lis[c].closes < MaxCloses
    /\ lis[c].closes >= 1 => Copies(lis[c].cli) < MaxCopies
    /\ lis' = [lis EXCEPT ![c] =
                  [cli |-> lis[c].cli, closes |-> lis[c].closes + 1,
                   cleanups |-> lis[c].cleanups + 1, remoteClosed |-> TRUE]]
    /\ pool' = PoolPut(lis[c].cli)
    /\ rel' = [rel EXCEPT ![c] = rel[c] + 1]
    /\ UNCHANGED <<pc, op, cli, ctxDone, acq, res, tries, handleVars, chanVars, singleVars, mut>>
    /\ UNCHANGED <<execVars, authVars, permVars>>

\* The user is done with a listener it has closed.
listenerDrop(c) ==
    /\ pc[c] = "listening"
    /\ lis[c].closes >= 1
    /\ Forget(c)
    /\ lis' = [lis EXCEPT ![c] = NoListener]
    /\ UNCHANGED <<handleVars, chanVars, singleVars, pool, mut>>
    /\ UNCHANGED <<execVars, authVars, permVars>>

\* CommandDialContext: sess, err := cli.NewSession(); on success the
\* PutClient is deferred to the return.
NewSession(c) ==
    /\ pc[c] = "use"
    /\ op[c] = "CommandDialContext"
    /\ tries' = [tries EXCEPT ![c] = tries[c] + 1]
    /\ \E e \in Outcomes(c, cli[c]) :
          IF e = "ok"
             THEN /\ pc' = [pc EXCEPT ![c] = "start"]
                  /\ UNCHANGED <<pool, rel, res, hstate>>
             ELSE OnError(c, e)
    /\ UNCHANGED <<op, cli, ctxDone, acq, chanVars, singleVars, mut, lis>>
    /\ UNCHANGED <<execVars, authVars, permVars>>

\* CommandDialContext: err = sess.Start(cmd); whether it fails or the stream
\* is returned, the deferred d.PutClient(cli) runs.
SessStart(c) ==
    /\ pc[c] = "start"
    /\ \E e \in Outcomes(c, cli[c]) :
          /\ res' = [res EXCEPT ![c] = e]
          /\ hstate' = FoundDead(cli[c], e)
    /\ pool' = PoolPut(cli[c])
    /\ rel' = [rel EXCEPT ![c] = rel[c] + 1]
    /\ pc' = [pc EXCEPT ![c] = "ret"]
    /\ UNCHANGED <<op, cli, ctxDone, acq, tries, chanVars, singleVars, mut, lis>>
    /\ UNCHANGED <<execVars, authVars, permVars>>

\* PutClient, called by the user with the client SSHClient gave it.
PutClient(c) ==
    /\ pc[c] = "ret"
    /\ op[c] = "SSHClient"
    /\ acq[c] = "handle"
    /\ rel[c] = 0
    /\ pool' = PoolPut(cli[c])
    /\ rel' = [rel EXCEPT ![c] = rel[c] + 1]
    /\ UNCHANGED <<pc, op, cli, ctxDone, acq, res, tries, handleVars, chanVars, singleVars, mut, lis>>
    /\ UNCHANGED <<execVars, authVars, permVars>>

\* Close: for { a := d.pool.Get(); if a == nil { break }; a.Close() }
Close(c) ==
    /\ pc[c] = "closing"
    /\ \E a \in PoolGet :
          IF a # Nil
             THEN /\ pool' = PoolTake(a)
                  /\ hstate' = [hstate EXCEPT ![a] = "closed"]
                  /\ UNCHANGED <<pc, res>>
             ELSE /\ res' = [res EXCEPT ![c] = "ok"]
                  /\ pc' = [pc EXCEPT ![c] = "ret"]
                  /\ UNCHANGED <<pool, hstate>>
    /\ UNCHANGED <<op, cli, ctxDone, acq, tries, rel, chanVars, singleVars, mut, lis>>
    /\ UNCHANGED <<execVars, authVars, permVars>>

\* The garbage collector empties the sync.Pool: the clients in it are
\* dropped without being closed.
poolCleanup ==
    /\ IdleCopies > 0
    /\ pool' = [h \in Handles |-> 0]
    /\ UNCHANGED <<callerVars, handleVars, chanVars, singleVars, mut, lis>>
    /\ UNCHANGED <<execVars, authVars, permVars>>

\* The caller is done with what the method returned. A user that got a
\* client from SSHClient gives it back first.
poolReturn(c) ==
    /\ pc[c] = "ret"
    /\ (op[c] = "SSHClient" /\ acq[c] = "handle") => rel[c] = 1
    /\ Forget(c)
    /\ UNCHANGED <<handleVars, chanVars, singleVars, poolVars>>
    /\ UNCHANGED <<execVars, authVars, permVars>>

NewDialer ==
    /\ pool = [h \in Handles |-> 0]
    /\ mut = Nil
    /\ lis = [c \in Callers |-> NoListener]

InitPool ==
    /\ ExecUnused
    /\ AuthUnused
    /\ PermUnused
    /\ CallerInit
    /\ HandleInit
    /\ NewDialer
    /\ capacity = 0
    /\ conns = 0
    /\ clients = <<>>
    /\ SingleUnused

NextPool ==
    \/ \E c \in Callers :
          \/ poolCall(c)
          \/ poolCancel(c)
          \/ GetClientFirst(c)
          \/ GetClientLocked(c)
          \/ poolProxyDial(c)
          \/ poolNewClientConn(c)
          \/ DialContext(c)
          \/ Listen(c)
          \/ listenerClose(c)
          \/ listenerDrop(c)
          \/ NewSession(c)
          \/ SessStart(c)
          \/ PutClient(c)
          \/ Close(c)
          \/ poolReturn(c)
    \/ poolCleanup

SpecPool == InitPool /\ [][NextPool]_vars

\* The scheduler runs every goroutine that can take a step, and an operation
\* given a context returns once it is done. ssh.NewClientConn is given no
\* context and no deadline: nothing makes a handshake end. A goroutine waiting
\* in d.mut.Lock() gets the mutex if it is unlocked again and again
\* (sync.Mutex hands it to a starving waiter).
PoolFairness ==
    \A c \in Callers :
        /\ WF_vars(GetClientFirst(c))
        /\ SF_vars(GetClientLocked(c))
        /\ WF_vars(poolProxyDial(c))
        /\ WF_vars(DialContext(c))
        /\ WF_vars(Listen(c))
        /\ WF_vars(NewSession(c))
        /\ WF_vars(SessStart(c))

SpecPoolFair == SpecPool /\ PoolFairness

\* ========================================================== SpecSingle
\* The single-client Dialer of src/unnamed/part_003:276-515: one shared
\* d.sshCli, opened on demand under d.mut, closed and reopened on a failure.

SingleOps == {"DialContext", "Listen", "CommandDialContext", "Close"}

\* A caller enters DialContext, Listen or CommandDialContext, which call
\* dialContext, listen or commandDialContext with retry = 1; or Close.
singleCall(c) ==
    /\ \E o \in SingleOps : Begin(c, o, IF o = "Close" THEN "close" ELSE "lock")
    /\ retry' = [retry EXCEPT ![c] = 1]
    /\ UNCHANGED <<handleVars, chanVars, poolVars, sshCli>>
    /\ UNCHANGED <<execVars, authVars, permVars>>

\* The caller's context is cancelled while its SSHClient call is in flight.
singleCancel(c) ==
    /\ pc[c] \in {"lock", "dial", "handshake"}
    /\ ~ctxDone[c]
    /\ ctxDone' = [ctxDone EXCEPT ![c] = TRUE]
    /\ UNCHANGED <<pc, op, cli, acq, res, tries, rel, handleVars, chanVars, poolVars, singleVars>>
    /\ UNCHANGED <<execVars, authVars, permVars>>

\* SSHClient: d.mut.Lock(); cli := d.sshCli; if cli != nil { return cli, nil }
SSHClient(c) ==
    /\ pc[c] = "lock"
    /\ mut = Nil
    /\ IF sshCli # Nil
          THEN /\ cli' = [cli EXCEPT ![c] = sshCli]
               /\ acq' = [acq EXCEPT ![c] = "handle"]
               /\ pc' = [pc EXCEPT ![c] = "use"]
               /\ UNCHANGED mut
          ELSE /\ mut' = c
               /\ pc' = [pc EXCEPT ![c] = "dial"]
               /\ UNCHANGED <<cli, acq>>
    /\ UNCHANGED <<op, ctxDone, res, tries, rel, handleVars, chanVars, pool, lis, singleVars>>
    /\ UNCHANGED <<execVars, authVars, permVars>>

\* SSHClient: d.proxyDial(ctx, "tcp", d.host), under d.mut; on failure the
\* error is returned through dialContext without a retry.
singleProxyDial(c) ==
    /\ pc[c] = "dial"
    /\ \/ /\ ~ctxDone[c]
          /\ pc' = [pc EXCEPT ![c] = "handshake"]
          /\ UNCHANGED <<acq, res, mut>>
       \/ /\ acq' = [acq EXCEPT ![c] = IF ctxDone[c] THEN "ctx" ELSE "openErr"]
          /\ res' = [res EXCEPT ![c] = IF ctxDone[c] THEN "ctx" ELSE "openErr"]
          /\ mut' = Nil
          /\ pc' = [pc EXCEPT ![c] = "ret"]
    /\ UNCHANGED <<op, cli, ctxDone, tries, rel, handleVars, chanVars, pool, lis, singleVars>>
    /\ UNCHANGED <<execVars, authVars, permVars>>

\* SSHClient: ssh.NewClientConn and ssh.NewClient; d.sshCli = cli.
singleNewClientConn(c) ==
    /\ pc[c] = "handshake"
    /\ \/ /\ \E S \in {{h \in PoolHandles : hstate[h] = "unopened"}} :
                /\ S # {}
                /\ hstate' = [hstate EXCEPT ![Min(S)] = "open"]
                /\ cli' = [cli EXCEPT ![c] = Min(S)]
                /\ sshCli' = Min(S)
          /\ acq' = [acq EXCEPT ![c] = "handle"]
          /\ pc' = [pc EXCEPT ![c] = "use"]
          /\ UNCHANGED res
       \/ /\ acq' = [acq EXCEPT ![c] = "openErr"]
          /\ res' = [res EXCEPT ![c] = "openErr"]
          /\ pc' = [pc EXCEPT ![c] = "ret"]
          /\ UNCHANGED <<cli, hstate, sshCli>>
    /\ mut' = Nil
    /\ UNCHANGED <<op, ctxDone, tries, rel, chanVars, pool, lis, retry>>
    /\ UNCHANGED <<execVars, authVars, permVars>>

\* The error branch of dialContext, listen and commandDialContext:
\*     if retry != 0 { d.Close(); return d.dialContext(..., retry-1) }
\*     return nil, err
OnErrorRetry(c, e) ==
    /\ hstate' = FoundDead(cli[c], e)
    /\ res' = [res EXCEPT ![c] = e]
    /\ pc' = [pc EXCEPT ![c] = IF retry[c] # 0 THEN "close" ELSE "ret"]

\* dialContext: cli.Dial(network, address); listen: cli.Listen(network,
\* address). The client is shared: nothing is released on return.
dialContext(c) ==
    /\ pc[c] = "use"
    /\ op[c] \in {"DialContext", "Listen"}
    /\ tries' = [tries EXCEPT ![c] = tries[c] + 1]
    /\ \E e \in RemoteOutcomes(cli[c]) :
          IF e = "ok"
             THEN /\ res' = [res EXCEPT ![c] = "ok"]
                  /\ pc' = [pc EXCEPT ![c] = "ret"]
                  /\ UNCHANGED hstate
             ELSE OnErrorRetry(c, e)
    /\ UNCHANGED <<op, cli, ctxDone, acq, rel, chanVars, poolVars, singleVars>>
    /\ UNCHANGED <<execVars, authVars, permVars>>

\* commandDialContext: sess, err := cli.NewSession(); its error is returned
\* without a retry.
singleNewSession(c) ==
    /\ pc[c] = "use"
    /\ op[c] = "CommandDialContext"
    /\ \E e \in RemoteOutcomes(cli[c]) :
          IF e = "ok"
             THEN /\ pc' = [pc EXCEPT ![c] = "start"]
                  /\ UNCHANGED <<res, hstate>>
             ELSE /\ hstate' = FoundDead(cli[c], e)
                  /\ res' = [res EXCEPT ![c] = e]
                  /\ pc' = [pc EXCEPT ![c] = "ret"]
    /\ UNCHANGED <<op, cli, ctxDone, acq, tries, rel, chanVars, poolVars, singleVars>>
    /\ UNCHANGED <<execVars, authVars, permVars>>

\* commandDialContext: err = sess.Start(cmd)
commandDialContext(c) ==
    /\ pc[c] = "start"
    /\ tries' = [tries EXCEPT ![c] = tries[c] + 1]
    /\ \E e \in RemoteOutcomes(cli[c]) :
          IF e = "ok"
             THEN /\ res' = [res EXCEPT ![c] = "ok"]
                  /\ pc' = [pc EXCEPT ![c] = "ret"]
                  /\ UNCHANGED hstate
             ELSE OnErrorRetry(c, e)
    /\ UNCHANGED <<op, cli, ctxDone, acq, rel, chanVars, poolVars, singleVars>>
    /\ UNCHANGED <<execVars, authVars, permVars>>

\* Close, called by the user or by the error branch: under d.mut, closes
\* d.sshCli, whichever client that is by now, and sets it to nil. The error
\* branch goes on with the call at retry-1.
singleClose(c) ==
    /\ pc[c] = "close"
    /\ mut = Nil
    /\ IF sshCli # Nil
          THEN /\ hstate' = [hstate EXCEPT ![sshCli] = "closed"]
               /\ sshCli' = Nil
          ELSE UNCHANGED <<hstate, sshCli>>
    /\ IF op[c] = "Close"
          THEN /\ res' = [res EXCEPT ![c] = "ok"]
               /\ pc' = [pc EXCEPT ![c] = "ret"]
               /\ UNCHANGED retry
          ELSE /\ retry' = [retry EXCEPT ![c] = retry[c] - 1]
               /\ pc' = [pc EXCEPT ![c] = "lock"]
               /\ UNCHANGED res
    /\ UNCHANGED <<op, cli, ctxDone, acq, tries, rel, chanVars, poolVars>>
    /\ UNCHANGED <<execVars, authVars, permVars>>

\* The caller is done with what the method returned.
singleReturn(c) ==
    /\ pc[c] = "ret"
    /\ Forget(c)
    /\ retry' = [retry EXCEPT ![c] = 0]
    /\ UNCHANGED <<handleVars, chanVars, poolVars, sshCli>>
    /\ UNCHANGED <<execVars, authVars, permVars>>

InitSingle ==
    /\ ExecUnused
    /\ AuthUnused
    /\ PermUnused
    /\ CallerInit
    /\ HandleInit
    /\ NewDialer
    /\ capacity = 0
    /\ conns = 0
    /\ clients = <<>>
    /\ sshCli = Nil
    /\ retry = [c \in Callers |-> 0]

NextSingle ==
    \E c \in Callers :
        \/ singleCall(c)
        \/ singleCancel(c)
        \/ SSHClient(c)
        \/ singleProxyDial(c)
        \/ singleNewClientConn(c)
        \/ dialContext(c)
        \/ singleNewSession(c)
        \/ commandDialContext(c)
        \/ singleClose(c)
        \/ singleReturn(c)

SpecSingle == InitSingle /\ [][NextSingle]_vars

\* The Dialer, in the specifications that make no call on it.
DialerUnused ==
    /\ CallerInit
    /\ HandleInit
    /\ NewDialer
    /\ capacity = 0
    /\ conns = 0
    /\ clients = <<>>
    /\ SingleUnused

\* ============================================================ SpecExec
\* The Exec stream CommandDialContext returns once sess.Start succeeded
\* (src/client.go:195-216): a derived context, a goroutine waiting for the
\* remote process and a goroutine waiting for the context.

\* ctx.Done() of ctx, cancel := context.WithCancel(ctx) is closed.
CtxIsDone(s) == cancelled[s] \/ parentDone[s]

\* sess.Wait() returns once the remote process has exited or the session's
\* channel is closed (golang.org/x/crypto/ssh: the request loop ends and
\* Wait returns ExitMissingError).
WaitReturns(s) == proc[s] = "exited" \/ released[s].sess > 0

\* sess.Start(cmd) succeeded: ctx, cancel := context.WithCancel(ctx) and the
\* two go statements; the stream is returned to the caller.
execStart(s) ==
    /\ proc[s] = "none"
    /\ proc' = [proc EXCEPT ![s] = "running"]
    /\ waiter' = [waiter EXCEPT ![s] = "wait"]
    /\ killer' = [killer EXCEPT ![s] = "wait"]
    /\ UNCHANGED <<parentDone, cancelled, released, closeCalls, closeErr>>
    /\ UNCHANGED <<dialerVars, authVars, permVars>>

\* The remote process exits.
remoteExit(s) ==
    /\ proc[s] = "running"
    /\ proc' = [proc EXCEPT ![s] = "exited"]
    /\ UNCHANGED <<parentDone, cancelled, waiter, killer, released, closeCalls, closeErr>>
    /\ UNCHANGED <<dialerVars, authVars, permVars>>

\* The ctx the caller passed to CommandDialContext is cancelled.
parentCancel(s) ==
    /\ proc[s] # "none"
    /\ ~parentDone[s]
    /\ parentDone' = [parentDone EXCEPT ![s] = TRUE]
    /\ UNCHANGED <<proc, cancelled, waiter, killer, released, closeCalls, closeErr>>
    /\ UNCHANGED <<dialerVars, authVars, permVars>>

\* go func() { sess.Wait(); ... }: sess.Wait() returns.
sessWait(s) ==
    /\ waiter[s] = "wait"
    /\ WaitReturns(s)
    /\ waiter' = [waiter EXCEPT ![s] = "cancel"]
    /\ UNCHANGED <<proc, parentDone, cancelled, killer, released, closeCalls, closeErr>>
    /\ UNCHANGED <<dialerVars, authVars, permVars>>

\* waiterCancel with the release sequence repeated by the completion watcher.
waiterCancelMutant(s) ==
    /\ waiter[s] = "cancel"
    /\ cancelled' = [cancelled EXCEPT ![s] = TRUE]
    /\ released' = [released EXCEPT ![s].sess = @ + 1, ![s].pipe = @ + 1]
    /\ waiter' = [waiter EXCEPT ![s] = "done"]
    /\ UNCHANGED <<proc, parentDone, killer, closeCalls, closeErr>>
    /\ UNCHANGED <<dialerVars, authVars, permVars>>

\* go func() { ...; cancel() }: the completion watcher cancels and ends.
waiterCancel(s) ==
    /\ waiter[s] = "cancel"
    /\ cancelled' = [cancelled EXCEPT ![s] = TRUE]
    /\ waiter' = [waiter EXCEPT ![s] = "done"]
    /\ UNCHANGED <<proc, parentDone, killer, released, closeCalls, closeErr>>
    /\ UNCHANGED <<dialerVars, authVars, permVars>>

\* go func() { <-ctx.Done(); ... }: the receive returns.
ctxDoneRecv(s) ==
    /\ killer[s] = "wait"
    /\ CtxIsDone(s)
    /\ killer' = [killer EXCEPT ![s] = "signal"]
    /\ UNCHANGED <<proc, parentDone, cancelled, waiter, released, closeCalls, closeErr>>
    /\ UNCHANGED <<dialerVars, authVars, permVars>>

\* sessSignal sending no signal to a process that has exited.
sessSignalMutant(s) ==
    /\ killer[s] = "signal"
    /\ released' = [released EXCEPT ![s].signal = IF proc[s] = "exited" THEN @ ELSE @ + 1]
    /\ killer' = [killer EXCEPT ![s] = "sessClose"]
    /\ UNCHANGED <<proc, parentDone, cancelled, waiter, closeCalls, closeErr>>
    /\ UNCHANGED <<dialerVars, authVars, permVars>>

\* sess.Signal(ssh.SIGKILL): best effort, its error is dropped.
sessSignal(s) ==
    /\ killer[s] = "signal"
    /\ released' = [released EXCEPT ![s].signal = @ + 1]
    /\ killer' = [killer EXCEPT ![s] = "sessClose"]
    /\ UNCHANGED <<proc, parentDone, cancelled, waiter, closeCalls, closeErr>>
    /\ UNCHANGED <<dialerVars, authVars, permVars>>

\* sessClose without the call of sess.Close().
sessCloseMutant(s) ==
    /\ killer[s] = "sessClose"
    /\ killer' = [killer EXCEPT ![s] = "pipeClose"]
    /\ UNCHANGED <<proc, parentDone, cancelled, waiter, released, closeCalls, closeErr>>
    /\ UNCHANGED <<dialerVars, authVars, permVars>>

\* sess.Close()
sessClose(s) ==
    /\ killer[s] = "sessClose"
    /\ released' = [released EXCEPT ![s].sess = @ + 1]
    /\ killer' = [killer EXCEPT ![s] = "pipeClose"]
    /\ UNCHANGED <<proc, parentDone, cancelled, waiter, closeCalls, closeErr>>
    /\ UNCHANGED <<dialerVars, authVars, permVars>>

\* conn1.Close(); the cancellation watcher ends.
conn1Close(s) ==
    /\ killer[s] = "pipeClose"
    /\ released' = [released EXCEPT ![s].pipe = @ + 1]
    /\ killer' = [killer EXCEPT ![s] = "done"]
    /\ UNCHANGED <<proc, parentDone, cancelled, waiter, closeCalls, closeErr>>
    /\ UNCHANGED <<dialerVars, authVars, permVars>>

\* The closer given to connWithCloser: func() error { cancel(); return nil }
closer(s) ==
    /\ cancelled' = [cancelled EXCEPT ![s] = TRUE]
    /\ closeErr' = [closeErr EXCEPT ![s] = "nil"]

\* Close on the conn connWithCloser returned: runs the closer and returns
\* what it returns.
connClose(s) ==
    /\ proc[s] # "none"
    /\ closeCalls[s] < MaxStreamCloses
    /\ closeCalls' = [closeCalls EXCEPT ![s] = @ + 1]
    /\ closer(s)
    /\ UNCHANGED <<proc, parentDone, waiter, killer, released>>
    /\ UNCHANGED <<dialerVars, authVars, permVars>>

InitExec ==
    /\ DialerUnused
    /\ ExecUnused
    /\ AuthUnused
    /\ PermUnused

NextExec ==
    \E s \in Streams :
        \/ execStart(s)
        \/ remoteExit(s)
        \/ parentCancel(s)
        \/ sessWait(s)
        \/ waiterCancel(s)
        \/ ctxDoneRecv(s)
        \/ sessSignal(s)
        \/ sessClose(s)
        \/ conn1Close(s)
        \/ connClose(s)

SpecExec == InitExec /\ [][NextExec]_vars

\* The two goroutines of a stream are scheduled: a step of theirs that stays
\* possible is taken. Nothing obliges the remote process to exit, the caller
\* to cancel or the user to close.
ExecFairness ==
    \A s \in Streams :
        /\ WF_vars(sessWait(s))
        /\ WF_vars(waiterCancel(s))
        /\ WF_vars(ctxDoneRecv(s))
        /\ WF_vars(sessSignal(s))
        /\ WF_vars(sessClose(s))
        /\ WF_vars(conn1Close(s))

SpecExecFair == SpecExec /\ ExecFairness

\* ============================================================ SpecAuth
\* NewSimpleServer and serverConfig of src/simple_server.go:210-373, the
\* callbacks they install, and ProxyURL (408-418) read back by
\* parseClientConfig (src/client.go:37-82). Strings are sequences of
\* characters.

Chars == {"u", ":", "@", "%"}

\* The principal names and passwords of at most MaxStrLen characters.
Strs == UNION {[1..n -> Chars] : n \in 0..MaxStrLen}

\* net/url, escape(s, encodeUserPassword): ':' and '@' are escaped in a
\* userinfo, and so is '%'.
EscapeChar(ch) ==
    IF ch = ":" THEN <<"%", "3", "A">>
    ELSE IF ch = "@" THEN <<"%", "4", "0">>
    ELSE IF ch = "%" THEN <<"%", "2", "5">>
    ELSE <<ch>>

RECURSIVE escape(_)
escape(t) == IF t = <<>> THEN <<>> ELSE EscapeChar(Head(t)) \o escape(Tail(t))

\* The character a %XX triple stands for.
HexChar(a, b) ==
    IF <<a, b>> = <<"3", "A">> THEN ":"
    ELSE IF <<a, b>> = <<"4", "0">> THEN "@"
    ELSE IF <<a, b>> = <<"2", "5">> THEN "%"
    ELSE "?"

\* net/url, unescape: every '%' is followed by two hexadecimal digits.
RECURSIVE ValidEscape(_)
ValidEscape(t) ==
    IF t = <<>> THEN TRUE
    ELSE IF Head(t) = "%"
         THEN /\ Len(t) >= 3
              /\ HexChar(t[2], t[3]) # "?"
              /\ ValidEscape(SubSeq(t, 4, Len(t)))
         ELSE ValidEscape(Tail(t))

RECURSIVE unescape(_)
unescape(t) ==
    IF t = <<>> THEN <<>>
    ELSE IF Head(t) = "%"
         THEN <<HexChar(t[2], t[3])>> \o unescape(SubSeq(t, 4, Len(t)))
         ELSE <<Head(t)>> \o unescape(Tail(t))

\* strings.LastIndex(t, ch) and strings.Index(t, ch), 0 when absent.
LastIndex(t, ch) ==
    IF \E i \in DOMAIN t : t[i] = ch
       THEN CHOOSE i \in DOMAIN t : t[i] = ch /\ \A j \in DOMAIN t : t[j] = ch => j <= i
       ELSE 0

Index(t, ch) ==
    IF \E i \in DOMAIN t : t[i] = ch
       THEN CHOOSE i \in DOMAIN t : t[i] = ch /\ \A j \in DOMAIN t : t[j] = ch => i <= j
       ELSE 0

\* url.Parse on the authority of ssh://authority: the userinfo is what
\* precedes the last '@'; it is cut at its first ':' into name and password
\* and both are unescaped. ur.User, ur.User.Username(), ur.User.Password().
ParseUser(authority) ==
    LET at == LastIndex(authority, "@")
        userinfo == SubSeq(authority, 1, at - 1)
        colon == Index(userinfo, ":")
    IN  IF at = 0
           THEN [ok |-> TRUE, hasUser |-> FALSE, user |-> <<>>, pwd |-> <<>>, isPwd |-> FALSE]
        ELSE IF ~ValidEscape(userinfo)
           THEN [ok |-> FALSE, hasUser |-> FALSE, user |-> <<>>, pwd |-> <<>>, isPwd |-> FALSE]
        ELSE IF colon = 0
           THEN [ok |-> TRUE, hasUser |-> TRUE, user |-> unescape(userinfo),
                 pwd |-> <<>>, isPwd |-> FALSE]
        ELSE [ok |-> TRUE, hasUser |-> TRUE,
              user |-> unescape(SubSeq(userinfo, 1, colon - 1)),
              pwd |-> unescape(SubSeq(userinfo, colon + 1, Len(userinfo))),
              isPwd |-> TRUE]

\* The host part of every URI of the model.
Host == <<"h">>

\* The authorities of the URIs given to NewSimpleServer: no userinfo, a
\* principal alone, or a principal:password pair.
Authorities ==
    {Host}
    \cup {escape(u) \o <<"@">> \o Host : u \in Strs}
    \cup {escape(u) \o <<":">> \o escape(w) \o <<"@">> \o Host : u \in Strs, w \in Strs}

\* authorized_data / authorized_file of the URI: absent; present and holding
\* no key (len(keys.Data) == 0); present and holding StaticKeys.
AuthorizedKinds == {"none", "empty", "keys"}

Keys == {"k1", "k2", "k3"}

StaticKeys == {"k1"}

\* What a principal's authorized-keys file under home_dir can be.
HomeFileStates ==
    {[exists |-> FALSE, keys |-> {}],
     [exists |-> TRUE, keys |-> {}],
     [exists |-> TRUE, keys |-> {"k2"}]}

\* The pks slice: the static verifier is appended only when key material
\* was given and holds at least one key, then the home_dir verifier.
BuildPks(a) ==
    (IF a.authorized # "none" /\ a.authorized = "keys" THEN <<"static">> ELSE <<>>)
    \o (IF a.homeDir THEN <<"home">> ELSE <<>>)

\* serverConfig, and the SimpleServer NewSimpleServer makes of its results.
serverConfig(a) ==
    LET ur == ParseUser(a.authority)
        isPwd == ur.hasUser /\ ur.isPwd
        pks == BuildPks(a)
    IN  [built |-> TRUE,
         Username |-> IF isPwd THEN ur.user ELSE <<>>,
         Password |-> IF isPwd THEN ur.pwd ELSE <<>>,
         PasswordCallback |-> isPwd,
         user |-> IF isPwd THEN ur.user ELSE <<>>,
         pwd |-> IF isPwd THEN ur.pwd ELSE <<>>,
         pks |-> pks,
         NoClientAuth |-> ~a.authenticate /\ ~isPwd /\ pks = <<>>]

\* config.PasswordCallback: the error it returns, "nil" for none.
PasswordCallback(user, password) ==
    IF user = srv.user /\ password = srv.pwd THEN "nil" ELSE "denied"

\* The verifier over the static key set.
staticVerifier(user, key) ==
    IF key \in StaticKeys THEN "nil" ELSE "denied"

\* homeVerifier handing on the error of sshd.GetAuthorizedFile.
homeVerifierMutant(user, key) ==
    IF user \notin DOMAIN homeFiles \/ ~homeFiles[user].exists THEN "no such file"
    ELSE IF key \in homeFiles[user].keys THEN "nil"
    ELSE "denied"

\* The verifier reading homeDir/<user>/.ssh/authorized_keys.
homeVerifier(user, key) ==
    IF user \notin DOMAIN homeFiles \/ ~homeFiles[user].exists THEN "denied"
    ELSE IF key \in homeFiles[user].keys THEN "nil"
    ELSE "denied"

\* pk(conn, key) for one element of pks.
Verify(pk, user, key) ==
    IF pk = "static" THEN staticVerifier(user, key) ELSE homeVerifier(user, key)

\* chainFrom without the break: every verifier is consulted and the last
\* one decides.
RECURSIVE chainFromMutant(_, _, _, _)
chainFromMutant(pks, i, user, key) ==
    LET err == Verify(pks[i], user, key)
    IN  IF i = Len(pks)
           THEN [consulted |-> <<pks[i]>>, err |-> err]
           ELSE LET rest == chainFromMutant(pks, i + 1, user, key)
                IN  [consulted |-> <<pks[i]>> \o rest.consulted, err |-> rest.err]

\* for _, pk := range pks { p, err = pk(conn, key); if err == nil { break } }
\* from element i on: the verifiers consulted and the error returned.
RECURSIVE chainFrom(_, _, _, _)
chainFrom(pks, i, user, key) ==
    LET err == Verify(pks[i], user, key)
    IN  IF err = "nil" \/ i = Len(pks)
           THEN [consulted |-> <<pks[i]>>, err |-> err]
           ELSE LET rest == chainFrom(pks, i + 1, user, key)
                IN  [consulted |-> <<pks[i]>> \o rest.consulted, err |-> rest.err]

\* config.PublicKeyCallback: pks[0] itself when it is alone, the loop
\* otherwise.
PublicKeyCallback(pks, user, key) ==
    IF Len(pks) = 1
       THEN [consulted |-> <<pks[1]>>, err |-> Verify(pks[1], user, key)]
       ELSE chainFrom(pks, 1, user, key)

\* ProxyURL: the userinfo is written only when s.Username != "";
\* url.UserPassword(s.Username, s.Password) and u.String() escape both.
ProxyURL(sv) ==
    IF sv.Username # <<>>
       THEN escape(sv.Username) \o <<":">> \o escape(sv.Password) \o <<"@">> \o Host
       ELSE Host

\* parseClientConfig: User and, when a password is set, ssh.Password(pwd).
parseClientConfig(authority) ==
    LET ur == ParseUser(authority)
    IN  [built |-> TRUE,
         User |-> IF ur.hasUser THEN ur.user ELSE <<>>,
         pwd |-> IF ur.hasUser /\ ur.isPwd THEN ur.pwd ELSE <<>>,
         isPwd |-> ur.hasUser /\ ur.isPwd]

\* NewSimpleServer(addr)
NewSimpleServer ==
    /\ ~srv.built
    /\ srv' = serverConfig(addr)
    /\ UNCHANGED <<addr, homeFiles, att, client>>
    /\ UNCHANGED <<dialerVars, execVars, permVars>>

\* A principal's authorized-keys file is written or removed.
writeHomeFile ==
    /\ srv.built
    /\ addr.homeDir
    /\ \E u \in KeyPrincipals, f \in HomeFileStates :
          /\ homeFiles[u] # f
          /\ homeFiles' = [homeFiles EXCEPT ![u] = f]
    /\ UNCHANGED <<addr, srv, att, client>>
    /\ UNCHANGED <<dialerVars, execVars, permVars>>

\* A session offers a password: the ssh server calls PasswordCallback.
passwordOffer ==
    /\ srv.built
    /\ srv.PasswordCallback
    /\ \E u \in Strs, w \in Strs :
          LET err == PasswordCallback(u, w)
          IN  att' = [kind |-> "password", user |-> u, password |-> w, key |-> "none",
                      consulted |-> <<"password">>,
                      result |-> IF err = "nil" THEN "allow" ELSE "deny",
                      err |-> err]
    /\ UNCHANGED <<addr, srv, homeFiles, client>>
    /\ UNCHANGED <<dialerVars, execVars, permVars>>

\* A session offers a public key: the ssh server calls PublicKeyCallback.
publicKeyOffer ==
    /\ srv.built
    /\ srv.pks # <<>>
    /\ \E u \in KeyPrincipals, k \in Keys :
          LET r == PublicKeyCallback(srv.pks, u, k)
          IN  att' = [kind |-> "publickey", user |-> u, password |-> <<>>, key |-> k,
                      consulted |-> r.consulted,
                      result |-> IF r.err = "nil" THEN "allow" ELSE "deny",
                      err |-> r.err]
    /\ UNCHANGED <<addr, srv, homeFiles, client>>
    /\ UNCHANGED <<dialerVars, execVars, permVars>>

\* NewDialer(s.ProxyURL())
NewDialerFromProxyURL ==
    /\ srv.built
    /\ ~client.built
    /\ client' = parseClientConfig(ProxyURL(srv))
    /\ UNCHANGED <<addr, srv, homeFiles, att>>
    /\ UNCHANGED <<dialerVars, execVars, permVars>>

\* The client authenticates with what its configuration holds: its password
\* when it has one, and no credential otherwise, which the server accepts
\* only with NoClientAuth.
clientAuth ==
    /\ client.built
    /\ IF client.isPwd /\ srv.PasswordCallback
          THEN LET err == PasswordCallback(client.User, client.pwd)
               IN  att' = [kind |-> "password", user |-> client.User,
                           password |-> client.pwd, key |-> "none",
                           consulted |-> <<"password">>,
                           result |-> IF err = "nil" THEN "allow" ELSE "deny",
                           err |-> err]
          ELSE att' = [kind |-> "none", user |-> client.User, password |-> <<>>,
                       key |-> "none", consulted |-> <<>>,
                       result |-> IF srv.NoClientAuth THEN "allow" ELSE "deny",
                       err |-> IF srv.NoClientAuth THEN "nil" ELSE "no auth passed"]
    /\ UNCHANGED <<addr, srv, homeFiles, client>>
    /\ UNCHANGED <<dialerVars, execVars, permVars>>

InitAuth ==
    /\ DialerUnused
    /\ ExecUnused
    /\ PermUnused
    /\ addr \in [authority : Authorities, authorized : AuthorizedKinds,
                 homeDir : BOOLEAN, authenticate : BOOLEAN]
    /\ srv = NoServer
    /\ homeFiles = [u \in KeyPrincipals |-> [exists |-> FALSE, keys |-> {}]]
    /\ att = NoAttempt
    /\ client = NoClient

NextAuth ==
    \/ NewSimpleServer
    \/ writeHomeFile
    \/ passwordOffer
    \/ publicKeyOffer
    \/ NewDialerFromProxyURL
    \/ clientAuth

SpecAuth == InitAuth /\ [][NextAuth]_vars

\* ============================================================ SpecConf
\* The duration parameters of the connection URIs: timeout, read by
\* parseClientConfig (src/unnamed/part_003:74-83), and
\* permissions_file_update_period, read by serverConfig
\* (src/simple_server.go:331-341) and handed to NewPermissionsFromFile
\* (src/unnamed/part_002:123-131). Durations are counted in seconds.

Digits == {"0", "2"}

DurChars == Digits \cup {"s", "x"}

\* The values a duration parameter is given.
DurStrs == UNION {[1..n -> DurChars] : n \in 0..MaxDurLen}

\* A query parameter: absent from the URI, or present with a value.
DurationParams ==
    {[present |-> FALSE, value |-> <<>>]}
    \cup {[present |-> TRUE, value |-> v] : v \in DurStrs}

\* var timeout = 30 * time.Second
DefaultTimeout == 30

\* time.Second, the least period NewPermissionsFromFile keeps.
Second == 1

\* The number of leading characters of t that are in S.
LeadLen(t, S) ==
    CHOOSE n \in 0..Len(t) :
        /\ \A i \in 1..n : t[i] \in S
        /\ n < Len(t) => t[n + 1] \notin S

\* The value of a string of decimal digits.
RECURSIVE DecVal(_)
DecVal(t) ==
    IF t = <<>> THEN 0
    ELSE 10 * DecVal(SubSeq(t, 1, Len(t) - 1)) + (IF t[Len(t)] = "2" THEN 2 ELSE 0)

\* The units of time.ParseDuration that DurChars can spell, in seconds.
UnitSeconds(u) == IF u = <<"s">> THEN 1 ELSE 0

\* time.ParseDuration on a non-empty string other than "0": a sequence of
\* groups, each a number followed by a unit; a group with no digit, with no
\* unit or with an unknown unit is an error.
RECURSIVE ParseGroups(_)
ParseGroups(t) ==
    IF t = <<>> THEN [ok |-> TRUE, d |-> 0]
    ELSE LET n == LeadLen(t, Digits)
             rest == SubSeq(t, n + 1, Len(t))
             u == LeadLen(rest, DurChars \ Digits)
             unit == SubSeq(rest, 1, u)
             r == ParseGroups(SubSeq(rest, u + 1, Len(rest)))
         IN  IF n = 0 \/ u = 0 \/ UnitSeconds(unit) = 0 \/ ~r.ok
                THEN [ok |-> FALSE, d |-> 0]
                ELSE [ok |-> TRUE, d |-> DecVal(SubSeq(t, 1, n)) * UnitSeconds(unit) + r.d]

\* time.ParseDuration: "0" is the zero duration, "" is an error, and on an
\* error the duration returned is zero.
ParseDuration(t) ==
    IF t = <<"0">> THEN [ok |-> TRUE, d |-> 0]
    ELSE IF t = <<>> THEN [ok |-> FALSE, d |-> 0]
    ELSE ParseGroups(t)

\* parseClientConfig: timeoutStr := ur.Query().Get("timeout"); the default
\* stays when it is ""; an error of time.ParseDuration is returned.
parseTimeout(a) ==
    LET timeoutStr == IF a.timeout.present THEN a.timeout.value ELSE <<>>
        r == ParseDuration(timeoutStr)
    IN  IF timeoutStr = <<>>
           THEN [called |-> TRUE, err |-> "nil", Timeout |-> DefaultTimeout]
        ELSE IF ~r.ok
           THEN [called |-> TRUE, err |-> "invalid duration", Timeout |-> 0]
        ELSE [called |-> TRUE, err |-> "nil", Timeout |-> r.d]

\* serverConfig: under home_dir and a permissions_file_name, the period is
\* time.ParseDuration of the parameter, whose error is dropped, and zero
\* without the parameter. serverConfig returns no error for it.
permissionsFileUpdatePeriod(a) ==
    LET hasPermissions == a.homeDir /\ a.permissionsFileName
    IN  [called |-> TRUE,
         err |-> "nil",
         userPermissions |-> hasPermissions,
         period |-> IF hasPermissions /\ a.period.present
                       THEN ParseDuration(a.period.value).d
                       ELSE 0]

\* NewPermissionsFromFile: if period < time.Second { period = time.Second }
NewPermissionsFromFile(period) ==
    [kind |-> "permissions", period |-> IF period < Second THEN Second ELSE period]

NoConfig == [called |-> FALSE, err |-> "nil"]

\* NewSimpleServer(addr), for the period it keeps.
confNewSimpleServer ==
    /\ ~srv.called
    /\ srv' = permissionsFileUpdatePeriod(addr)
    /\ UNCHANGED <<addr, homeFiles, att, client>>
    /\ UNCHANGED <<dialerVars, execVars, permVars>>

\* A session of some principal starts: s.UserPermissions(user) makes its
\* PermissionsFromFile.
userPermissions ==
    /\ srv.called
    /\ srv.err = "nil"
    /\ srv.userPermissions
    /\ att.kind = "none"
    /\ att' = NewPermissionsFromFile(srv.period)
    /\ UNCHANGED <<addr, srv, homeFiles, client>>
    /\ UNCHANGED <<dialerVars, execVars, permVars>>

\* NewDialer(addr), for the timeout it keeps.
confNewDialer ==
    /\ ~client.called
    /\ client' = parseTimeout(addr)
    /\ UNCHANGED <<addr, srv, homeFiles, att>>
    /\ UNCHANGED <<dialerVars, execVars, permVars>>

InitConf ==
    /\ DialerUnused
    /\ ExecUnused
    /\ PermUnused
    /\ addr \in [timeout : DurationParams, period : DurationParams,
                 homeDir : BOOLEAN, permissionsFileName : BOOLEAN]
    /\ srv = NoConfig
    /\ client = NoConfig
    /\ homeFiles = [u \in KeyPrincipals |-> [exists |-> FALSE, keys |-> {}]]
    /\ att = NoAttempt

NextConf ==
    \/ confNewSimpleServer
    \/ userPermissions
    \/ confNewDialer

SpecConf == InitConf /\ [][NextConf]_vars

\* ========================================================== SpecListen
\* The address Listen asks the remote end to listen on
\* (src/client.go:259-272): the first lines of Listen, before GetClient.
\* The rest of Listen is in SpecPool.

AddrChars == {":", "[", "]", "8", "h"}

\* The addresses given to Listen.
AddrStrs == UNION {[1..n -> AddrChars] : n \in 0..MaxAddrLen}

\* "0.0.0.0"
AnyHost == <<"0", ".", "0", ".", "0", ".", "0">>

\* net.SplitHostPort: the port follows the last ':'; a host in brackets ends
\* at the first ']', which the last ':' must follow; any other '[', ']' or
\* ':' of the host is an error.
SplitHostPort(t) ==
    LET i == LastIndex(t, ":")
        end == Index(t, "]")
        port == SubSeq(t, i + 1, Len(t))
        bad == [err |-> "address", host |-> <<>>, port |-> <<>>]
    IN  IF i = 0 THEN bad
        ELSE IF t[1] = "["
           THEN IF end = 0 \/ end = Len(t) \/ end + 1 # i THEN bad
                ELSE IF Index(SubSeq(t, 2, Len(t)), "[") # 0 THEN bad
                ELSE IF Index(SubSeq(t, end + 1, Len(t)), "]") # 0 THEN bad
                ELSE [err |-> "nil", host |-> SubSeq(t, 2, end - 1), port |-> port]
        ELSE IF Index(SubSeq(t, 1, i - 1), ":") # 0 THEN bad
        ELSE IF Index(t, "[") # 0 \/ Index(t, "]") # 0 THEN bad
        ELSE [err |-> "nil", host |-> SubSeq(t, 1, i - 1), port |-> port]

\* net.JoinHostPort: a host holding ':' is put in brackets.
JoinHostPort(host, port) ==
    IF Index(host, ":") # 0
       THEN <<"[">> \o host \o <<"]", ":">> \o port
       ELSE host \o <<":">> \o port

\* Listen with if host != "" in the place of if host == "".
remoteAddressMutant(address) ==
    LET r == SplitHostPort(address)
    IN  IF r.err = "nil" /\ r.host # <<>>
           THEN JoinHostPort(AnyHost, r.port)
           ELSE address

\* Listen: host, port, err := net.SplitHostPort(address); if err == nil and
\* host == "", address = net.JoinHostPort("0.0.0.0", port).
remoteAddress(address) ==
    LET r == SplitHostPort(address)
    IN  IF r.err = "nil" /\ r.host = <<>>
           THEN JoinHostPort(AnyHost, r.port)
           ELSE address

\* Listen(ctx, network, address) up to its call of cli.Listen: the address
\* the remote end is sent.
listenAddress ==
    /\ att.kind = "none"
    /\ att' = [kind |-> "listen", address |-> remoteAddress(addr.address)]
    /\ UNCHANGED <<addr, srv, homeFiles, client>>
    /\ UNCHANGED <<dialerVars, execVars, permVars>>

\* The caller is done with the listener.
listenDone ==
    /\ att.kind = "listen"
    /\ att' = NoAttempt
    /\ UNCHANGED <<addr, srv, homeFiles, client>>
    /\ UNCHANGED <<dialerVars, execVars, permVars>>

InitListen ==
    /\ DialerUnused
    /\ ExecUnused
    /\ PermUnused
    /\ addr \in [address : AddrStrs]
    /\ srv = NoServer
    /\ client = NoClient
    /\ homeFiles = [u \in KeyPrincipals |-> [exists |-> FALSE, keys |-> {}]]
    /\ att = NoAttempt

NextListen ==
    \/ listenAddress
    \/ listenDone

SpecListen == InitListen /\ [][NextListen]_vars

\* =========================================================== SpecAllow
\* Permissions.Allow and Permission.Allow of the permissions package
\* (src/unnamed/part_002:79-113), on every document of the bounds.

Resources == {"exec", "tcp"}

\* The arguments that occur in lists, and one that occurs in none.
ListArgs == {"a", "b"}

Arguments == ListArgs \cup {"c"}

\* A []string field: nil, or a list of at most MaxListLen items.
Lists ==
    {[nil |-> TRUE, items |-> <<>>]}
    \cup {[nil |-> FALSE, items |-> l] : l \in UNION {[1..n -> ListArgs] : n \in 0..MaxListLen}}

Rules == [Default : BOOLEAN, Allows : Lists, Blocks : Lists]

\* Permissions, a map[string]Permission.
Documents == UNION {[R -> Rules] : R \in SUBSET Resources}

\* for _, item := range items { if item == args { return ... } }
RECURSIVE Contains(_, _)
Contains(items, args) ==
    IF items = <<>> THEN FALSE
    ELSE IF Head(items) = args THEN TRUE
    ELSE Contains(Tail(items), args)

\* Permission.Allow testing the length of the lists instead of nil.
PermissionAllowMutant(p, req, args) ==
    IF p.Allows.items # <<>> THEN Contains(p.Allows.items, args)
    ELSE IF p.Blocks.items # <<>> THEN ~Contains(p.Blocks.items, args)
    ELSE p.Default

\* func (p Permission) Allow(req string, args string) bool
PermissionAllow(p, req, args) ==
    IF ~p.Allows.nil THEN Contains(p.Allows.items, args)
    ELSE IF ~p.Blocks.nil THEN ~Contains(p.Blocks.items, args)
    ELSE p.Default

\* func (p Permissions) Allow(req string, args string) bool
PermissionsAllow(p, req, args) ==
    IF req \notin DOMAIN p THEN FALSE ELSE PermissionAllow(p[req], req, args)

\* One call of Allow on the document in permissions.
permissionsAllow(c) ==
    /\ \A d \in Callers : call[d].pc = "idle"
    /\ ~permissions.nil
    /\ \E r \in Resources, a \in Arguments :
          call' = [call EXCEPT ![c] =
                     [NoCall EXCEPT !.pc = "ret", !.req = r, !.args = a,
                         !.result = IF PermissionsAllow(permissions.doc, r, a)
                                       THEN "allow" ELSE "deny"]]
    /\ UNCHANGED <<now, file, permissions, latestTime>>
    /\ UNCHANGED <<dialerVars, execVars, authVars>>

\* The caller has its answer.
allowReturn(c) ==
    /\ call[c].pc = "ret"
    /\ call' = [call EXCEPT ![c] = NoCall]
    /\ UNCHANGED <<now, file, permissions, latestTime>>
    /\ UNCHANGED <<dialerVars, execVars, authVars>>

InitAllow ==
    /\ DialerUnused
    /\ ExecUnused
    /\ AuthUnused
    /\ now = 0
    /\ file = [kind |-> "absent", doc |-> NoDoc]
    /\ permissions \in {[nil |-> FALSE, doc |-> d] : d \in Documents}
    /\ latestTime = ZeroTime
    /\ call = [c \in Callers |-> NoCall]

NextAllow ==
    \E c \in Callers :
        \/ permissionsAllow(c)
        \/ allowReturn(c)

SpecAllow == InitAllow /\ [][NextAllow]_vars

\* ============================================================ SpecPerm
\* PermissionsFromFile of the permissions package
\* (src/unnamed/part_002:115-180): the cache of one permission file, reloaded
\* by the Allow calls themselves.

\* Two documents a permission file can hold.
DocA == [r \in {"exec"} |->
           [Default |-> FALSE, Allows |-> [nil |-> FALSE, items |-> <<"a">>],
            Blocks |-> [nil |-> TRUE, items |-> <<>>]]]

DocB == [r \in {"exec"} |->
           [Default |-> TRUE, Allows |-> [nil |-> TRUE, items |-> <<>>],
            Blocks |-> [nil |-> FALSE, items |-> <<"a">>]]]

\* The file at s.path: absent; there but unreadable; not JSON; the JSON
\* null; a document.
FileStates ==
    {[kind |-> k, doc |-> NoDoc] : k \in {"absent", "unreadable", "malformed", "null"}}
    \cup {[kind |-> "doc", doc |-> d] : d \in {DocA, DocB}}

\* What update holds in perm before it takes the lock: nil after a read
\* error other than not-exist, after a failed Unmarshal and for null.
Parsed(f) == IF f.kind = "doc" THEN [nil |-> FALSE, doc |-> f.doc] ELSE NilPermissions

\* perm == nil || time.Since(latest) > s.period, at time t.
NeedsUpdate(perm, latest, t) ==
    perm.nil \/ latest = ZeroTime \/ t - latest > Period

\* s.Allow(req, args) is called.
permCall(c) ==
    /\ call[c].pc = "idle"
    /\ \E a \in Arguments :
          call' = [call EXCEPT ![c] = [NoCall EXCEPT !.pc = "check", !.req = "exec", !.args = a]]
    /\ UNCHANGED <<now, file, permissions, latestTime>>
    /\ UNCHANGED <<dialerVars, execVars, authVars>>

\* What Allow returns once check returned (perm, true).
Answer(c, perm) ==
    IF PermissionsAllow(perm.doc, call[c].req, call[c].args) THEN "allow" ELSE "deny"

\* check: perm, latest := s.get(); the test of line 150; without an update,
\* return perm, true and Allow answers from perm.
check(c) ==
    /\ call[c].pc = "check"
    /\ IF NeedsUpdate(permissions, latestTime, now)
          THEN call' = [call EXCEPT ![c].pc = "read"]
          ELSE call' = [call EXCEPT ![c].pc = "ret", ![c].perm = permissions,
                                    ![c].latest = latestTime, ![c].checkedAt = now,
                                    ![c].result = Answer(c, permissions)]
    /\ UNCHANGED <<now, file, permissions, latestTime>>
    /\ UNCHANGED <<dialerVars, execVars, authVars>>

\* updateRead answering from the cached document when the file is gone.
updateReadMutant(c) ==
    /\ call[c].pc = "read"
    /\ IF file.kind = "absent"
          THEN call' = [call EXCEPT ![c].pc = "ret", ![c].perm = permissions,
                                    ![c].latest = latestTime, ![c].checkedAt = now,
                                    ![c].result = IF permissions.nil THEN "deny"
                                                  ELSE Answer(c, permissions)]
          ELSE call' = [call EXCEPT ![c].pc = "store", ![c].read = Parsed(file)]
    /\ UNCHANGED <<now, file, permissions, latestTime>>
    /\ UNCHANGED <<dialerVars, execVars, authVars>>

\* update: os.ReadFile(s.path) and json.Unmarshal, outside the lock. A file
\* that does not exist makes update return false, check return nil, false
\* and Allow return false.
updateRead(c) ==
    /\ call[c].pc = "read"
    /\ IF file.kind = "absent"
          THEN call' = [call EXCEPT ![c].pc = "ret", ![c].result = "deny"]
          ELSE call' = [call EXCEPT ![c].pc = "store", ![c].read = Parsed(file)]
    /\ UNCHANGED <<now, file, permissions, latestTime>>
    /\ UNCHANGED <<dialerVars, execVars, authVars>>

\* updateStore leaving the stamp as it was: the document is written, the
\* time of the reload is not.
updateStoreMutant(c) ==
    /\ call[c].pc = "store"
    /\ permissions' = call[c].read
    /\ latestTime' = IF latestTime = ZeroTime THEN now ELSE latestTime
    /\ call' = [call EXCEPT ![c].pc = "check2", ![c].read = NilPermissions]
    /\ UNCHANGED <<now, file>>
    /\ UNCHANGED <<dialerVars, execVars, authVars>>

\* update: s.mut.Lock(); s.permissions = perm; s.latestTime = time.Now()
updateStore(c) ==
    /\ call[c].pc = "store"
    /\ permissions' = call[c].read
    /\ latestTime' = now
    /\ call' = [call EXCEPT ![c].pc = "check2", ![c].read = NilPermissions]
    /\ UNCHANGED <<now, file>>
    /\ UNCHANGED <<dialerVars, execVars, authVars>>

\* check after update returned true: perm, latest = s.get() and the test of
\* line 155.
checkAgain(c) ==
    /\ call[c].pc = "check2"
    /\ IF NeedsUpdate(permissions, latestTime, now)
          THEN call' = [call EXCEPT ![c].pc = "ret", ![c].result = "deny"]
          ELSE call' = [call EXCEPT ![c].pc = "ret", ![c].perm = permissions,
                                    ![c].latest = latestTime, ![c].checkedAt = now,
                                    ![c].result = Answer(c, permissions)]
    /\ UNCHANGED <<now, file, permissions, latestTime>>
    /\ UNCHANGED <<dialerVars, execVars, authVars>>

\* Time passes.
tick ==
    /\ now < MaxTime
    /\ now' = now + 1
    /\ UNCHANGED <<file, permissions, latestTime, call>>
    /\ UNCHANGED <<dialerVars, execVars, authVars>>

\* The permission file is written, replaced, damaged or deleted.
writeFile ==
    /\ \E f \in FileStates :
          /\ f # file
          /\ file' = f
    /\ UNCHANGED <<now, permissions, latestTime, call>>
    /\ UNCHANGED <<dialerVars, execVars, authVars>>

InitPerm ==
    /\ DialerUnused
    /\ ExecUnused
    /\ AuthUnused
    /\ PermUnused

NextPerm ==
    \/ tick
    \/ writeFile
    \/ \E c \in Callers :
          \/ permCall(c)
          \/ check(c)
          \/ updateRead(c)
          \/ updateStore(c)
          \/ checkAgain(c)
          \/ allowReturn(c)

SpecPerm == InitPerm /\ [][NextPerm]_vars

\* ============================================================ SpecHome
\* A server configured with home_dir and permissions_file_name
\* (src/simple_server.go:298-341): every principal has its own
\* authorized-keys file, read at each key offer, and its own permission
\* file behind its own PermissionsFromFile
\* (src/unnamed/part_002:115-180). Requests are served one at a time.

\* ssh://h?home_dir=...&permissions_file_name=...
HomeAddr == [authority |-> Host, authorized |-> "none",
             homeDir |-> TRUE, authenticate |-> FALSE]

\* What a principal's permission file is: absent, unreadable, or DocA.
HomePermFiles ==
    {[kind |-> k, doc |-> NoDoc] : k \in {"absent", "unreadable"}}
    \cup {[kind |-> "doc", doc |-> DocA]}

\* What Allow("exec", "a") of a PermissionsFromFile with the fields perm and
\* latest, on the file f, returns at time t, and what it leaves in the
\* fields: check (148-160) with update (162-180), one call at a time.
AllowOnce(perm, latest, f, t) ==
    IF ~NeedsUpdate(perm, latest, t)
       THEN [found |-> "cache", permissions |-> perm, latestTime |-> latest,
             ok |-> PermissionsAllow(perm.doc, "exec", "a")]
    ELSE IF f.kind = "absent"
       THEN [found |-> f.kind, permissions |-> perm, latestTime |-> latest, ok |-> FALSE]
    ELSE [found |-> f.kind, permissions |-> Parsed(f), latestTime |-> t,
          ok |-> /\ ~NeedsUpdate(Parsed(f), t, t)
                 /\ PermissionsAllow(Parsed(f).doc, "exec", "a")]

\* userAllow with one PermissionsFromFile for all principals: what one
\* principal's call loads is every principal's cache.
userAllowMutant(u) ==
    LET r == AllowOnce(permissions[u], latestTime[u], file[u], now)
    IN  /\ permissions' = [v \in KeyPrincipals |-> r.permissions]
        /\ latestTime' = [v \in KeyPrincipals |-> r.latestTime]
        /\ att' = [kind |-> "permission", user |-> u, password |-> <<>>, key |-> "none",
                   consulted |-> <<r.found>>,
                   result |-> IF r.ok THEN "allow" ELSE "deny", err |-> "nil"]
        /\ UNCHANGED <<addr, srv, homeFiles, client, now, file, call>>
        /\ UNCHANGED <<dialerVars, execVars>>

\* A session of principal u asks for an exec: userPermissions(u), the
\* PermissionsFromFile of u's permission file, and its Allow.
userAllow(u) ==
    LET r == AllowOnce(permissions[u], latestTime[u], file[u], now)
    IN  /\ permissions' = [permissions EXCEPT ![u] = r.permissions]
        /\ latestTime' = [latestTime EXCEPT ![u] = r.latestTime]
        /\ att' = [kind |-> "permission", user |-> u, password |-> <<>>, key |-> "none",
                   consulted |-> <<r.found>>,
                   result |-> IF r.ok THEN "allow" ELSE "deny", err |-> "nil"]
        /\ UNCHANGED <<addr, srv, homeFiles, client, now, file, call>>
        /\ UNCHANGED <<dialerVars, execVars>>

\* A principal's permission file is written, made unreadable or deleted.
permWriteFile(u) ==
    /\ \E f \in HomePermFiles :
          /\ f # file[u]
          /\ file' = [file EXCEPT ![u] = f]
    /\ UNCHANGED <<now, permissions, latestTime, call>>
    /\ UNCHANGED <<dialerVars, execVars, authVars>>

\* Time passes.
homeTick ==
    /\ now < MaxTime
    /\ now' = now + 1
    /\ UNCHANGED <<file, permissions, latestTime, call>>
    /\ UNCHANGED <<dialerVars, execVars, authVars>>

InitHome ==
    /\ DialerUnused
    /\ ExecUnused
    /\ addr = HomeAddr
    /\ srv = serverConfig(HomeAddr)
    /\ homeFiles = [u \in KeyPrincipals |-> [exists |-> FALSE, keys |-> {}]]
    /\ att = NoAttempt
    /\ client = NoClient
    /\ now = 0
    /\ file = [u \in KeyPrincipals |-> [kind |-> "absent", doc |-> NoDoc]]
    /\ permissions = [u \in KeyPrincipals |-> NilPermissions]
    /\ latestTime = [u \in KeyPrincipals |-> ZeroTime]
    /\ call = [c \in Callers |-> NoCall]

NextHome ==
    \/ writeHomeFile
    \/ publicKeyOffer
    \/ homeTick
    \/ \E u \in KeyPrincipals :
          \/ permWriteFile(u)
          \/ userAllow(u)

SpecHome == InitHome /\ [][NextHome]_vars

\* ------------------------------------------------- SpecChan: properties

\* d.conns counts the live handles plus the opens in flight (between the
\* increment and the end of sshClient): a failed or cancelled open leaves
\* no increment behind.
ConnsAccounting ==
    conns = LiveCount + Cardinality({c \in Callers : pc[c] \in {"dial", "handshake"}})

\* The callers holding handle h: inside an operation between getClient and
\* putClient, or holding the *ssh.Client that SSHClient returned.
ChanHolders(h) ==
    {c \in Callers :
        /\ cli[c] = h
        /\ \/ pc[c] \in {"use", "put"}
           \/ pc[c] = "ret" /\ op[c] = "SSHClient" /\ res[c] = "ok"}

\* How many times handle h sits in the idle queue.
ChanIdleCopies(h) == Cardinality({i \in DOMAIN clients : clients[i] = h})

\* C1: in every reachable state the number of handles opened and not
\* destroyed is at most the capacity of the pool, whatever the interleaving
\* of the callers' checks and increments.
C1_LiveCountWithinCapacity == LiveCount <= capacity

\* C2: while the live-count equals the capacity no step opens a new
\* transport, and an Acquire that returns a handle in such a state takes it
\* from the idle queue (a handle some caller released).
C2_NoOpenAtCapacity ==
    [][LiveCount = capacity =>
        /\ hstate' = hstate
        /\ \A c \in Callers :
              (acq[c] # "handle" /\ acq'[c] = "handle") =>
                  (clients # <<>> /\ cli'[c] = Head(clients))]_vars

\* C3: an Acquire whose context was cancelled while it was in flight returns
\* the cancellation error and no handle, and leaves no increment of the
\* live-count behind.
C3_CancelledAcquireFails ==
    /\ ConnsAccounting
    /\ \A c \in Callers :
          (ctxDone[c] /\ acq[c] # "none") => (acq[c] = "ctx" /\ cli[c] = Nil)

\* C4: a failed open leaves the live-count as it was, and no caller is left
\* blocked waiting for an idle handle while the pool is below its capacity
\* (the failed caller's slot has been given back).
C4_FailedOpenBlocksNobody ==
    /\ ConnsAccounting
    /\ \A c \in Callers : pc[c] = "select" => conns >= capacity

\* C8: a handle is held by at most one caller, and a handle in the idle
\* queue is held by nobody.
C8_ExclusiveHolder ==
    \A h \in ChanHandles : Cardinality(ChanHolders(h)) + ChanIdleCopies(h) <= 1

\* The callers that hold a handle they will put back: between getClient
\* and the end of putClient.
CheckedOut == {c \in Callers : pc[c] \in {"use", "put"}}

\* C28: the handles in the idle queue and the handles checked out are
\* together at most the capacity of the queue, so the send of every
\* putClient finds room.
C28_ReleaseFindsRoom ==
    /\ Len(clients) + Cardinality(CheckedOut) <= capacity
    /\ \A c \in Callers : pc[c] = "put" => Len(clients) < capacity

\* ------------------------------------------------- SpecPool: properties

\* The operations that acquire a client and use it themselves.
UsingOps == {"DialContext", "Listen", "CommandDialContext"}

\* C5: a Dial that returns a transport-level error has made exactly two
\* attempts (the first handle invalidated, the retry on a fresh one), and the
\* handle of the last attempt is destroyed and not in the idle set.
C5_TransportErrorRetriedOnce ==
    \A c \in Callers :
        (pc[c] = "ret" /\ op[c] = "DialContext" /\ ErrKind(res[c]) = "transport") =>
            /\ tries[c] = 2
            /\ hstate[cli[c]] = "closed"
            /\ pool[cli[c]] = 0

\* C6: when the remote operation of Dial, Listen or Exec fails with a
\* protocol-level error, the step that returns the error puts the handle
\* into the idle set, closes no handle, opens no transport, and the call has
\* made a single attempt.
C6_ProtocolErrorReleases ==
    [][\A c \in Callers :
          (/\ pc[c] \in {"use", "start"}
           /\ op[c] \in UsingOps
           /\ pc'[c] = "ret"
           /\ ErrKind(res'[c]) = "protocol") =>
              /\ pool'[cli[c]] = pool[cli[c]] + 1
              /\ hstate' = hstate
              /\ hstate[cli[c]] = "open"
              /\ tries'[c] = 1
              /\ cli'[c] = cli[c]]_vars

\* C6 witness: an Exec, a Listen or a Dial has returned the server's
\* rejection, and its handle is open and in the idle set.
C6_Witness ==
    \E c \in Callers :
        /\ pc[c] = "ret"
        /\ op[c] \in UsingOps
        /\ res[c] = "rejected"
        /\ tries[c] = 1
        /\ hstate[cli[c]] = "open"
        /\ pool[cli[c]] = 1

\* C7: every opened handle is in exactly one of idle, checked-out and
\* destroyed, and no destroyed or dead handle is in the idle set.
C7_HandleStates ==
    \A h \in PoolHandles :
        hstate[h] # "unopened" =>
            /\ Cardinality({k \in {"idle", "out", "destroyed"} :
                    \/ k = "idle" /\ pool[h] > 0
                    \/ k = "out" /\ PoolHolders(h) # {}
                    \/ k = "destroyed" /\ hstate[h] = "closed"}) = 1
            /\ pool[h] > 0 => hstate[h] = "open"

\* C9: the handle a Dial, Listen or Exec acquired is released or invalidated
\* never twice, and exactly once when the operation has returned (for a
\* listener: when it has been closed).
C9_OneReleasePerAcquire ==
    \A c \in Callers :
        op[c] \in UsingOps =>
            /\ rel[c] <= 1
            /\ (pc[c] = "ret" /\ acq[c] = "handle") => rel[c] = 1
            /\ (pc[c] = "listening" /\ lis[c].closes >= 1) => rel[c] = 1

\* C10: once a listener has been closed, however many times, its cleanup
\* hook has run exactly once and the remote listener is closed.
C10_CleanupOnce ==
    \A c \in Callers :
        lis[c].closes >= 1 => (lis[c].cleanups = 1 /\ lis[c].remoteClosed)

\* ------------------------------------------------- SpecExec: properties

\* The release sequence of stream s has run once, completely.
ReleasedOnce(s) == released[s] = [signal |-> 1, sess |-> 1, pipe |-> 1]

\* One of the three triggers of the teardown of stream s has happened.
Triggered(s) ==
    /\ proc[s] # "none"
    /\ (proc[s] = "exited" \/ closeCalls[s] >= 1 \/ parentDone[s])

\* The state Closed: session and local pipe end closed, both watchers ended.
StreamClosed(s) ==
    /\ released[s].sess >= 1
    /\ released[s].pipe >= 1
    /\ waiter[s] = "done"
    /\ killer[s] = "done"

\* C11: signal, session close and pipe-end close each run at most once per
\* stream and only after a trigger; once the cancellation watcher is through
\* they have run exactly once, whatever the order of remote exit, Close and
\* cancellation; Close returns no error, and a Close after the first changes
\* nothing of the release.
C11_ReleaseOnce ==
    [][\A s \in Streams :
          /\ released'[s].signal <= 1
          /\ released'[s].sess <= 1
          /\ released'[s].pipe <= 1
          /\ (released'[s].signal > 0 => Triggered(s)')
          /\ (killer'[s] = "done" => ReleasedOnce(s)')
          /\ closeErr'[s] \in {"none", "nil"}
          /\ (closeCalls[s] >= 1 /\ closeCalls'[s] > closeCalls[s])
                => (released' = released /\ closeErr'[s] = "nil")]_vars

\* All three triggers happened and Close was called twice on a stream that
\* is torn down.
C11_Witness ==
    \E s \in Streams :
        /\ proc[s] = "exited"
        /\ parentDone[s]
        /\ closeCalls[s] = 2
        /\ closeErr[s] = "nil"
        /\ killer[s] = "done"
        /\ waiter[s] = "done"
        /\ ReleasedOnce(s)

C25_TeardownOrder ==
    [][\A s \in Streams :
          /\ released'[s].signal > released[s].signal => CtxIsDone(s)
          /\ released'[s].sess > released[s].sess =>
                (released[s].signal >= 1 /\ released[s].pipe = 0 /\ CtxIsDone(s))
          /\ released'[s].pipe > released[s].pipe =>
                (released[s].signal >= 1 /\ released[s].sess >= 1 /\ CtxIsDone(s))
          /\ killer'[s] \in {"sessClose", "pipeClose", "done"} =>
                released'[s].signal >= 1]_vars

\* C25 witness: a stream torn down by the exit of the remote process alone,
\* with the signal sent, the session closed and the pipe end closed.
C25_Witness ==
    \E s \in Streams :
        /\ proc[s] = "exited"
        /\ closeCalls[s] = 0
        /\ ~parentDone[s]
        /\ killer[s] = "done"
        /\ ReleasedOnce(s)

\* ------------------------------------------------- SpecAuth: properties

\* C13: on every public-key offer the verifiers are the configured ones in
\* the order static key set, then per-principal directory; they are consulted
\* in that order up to and including the first that accepts, none after it;
\* the offer is allowed iff some configured verifier accepts the pair.
C13_ChainFirstAccept ==
    [][(att' # att /\ att'.kind = "publickey") =>
         LET pks == srv.pks
             Accepting == {i \in DOMAIN pks : Verify(pks[i], att'.user, att'.key) = "nil"}
             last == IF Accepting # {} THEN Min(Accepting) ELSE Len(pks)
         IN  /\ pks \in {<<"static">>, <<"home">>, <<"static", "home">>}
             /\ att'.consulted = SubSeq(pks, 1, last)
             /\ (att'.result = "allow") <=> (Accepting # {})]_vars

\* Both verifiers are configured and would accept; only the first was asked.
C13_Witness ==
    /\ att.kind = "publickey"
    /\ srv.pks = <<"static", "home">>
    /\ att.result = "allow"
    /\ att.consulted = <<"static">>
    /\ homeFiles[att.user].exists

\* C14: authentication is disabled iff the URI gave no principal:password
\* pair, no authorized key material and no home_dir, and authenticate is not
\* true.
C14_AuthDisabledIffUnconfigured ==
    srv.built =>
        (srv.NoClientAuth <=>
            /\ ~ParseUser(addr.authority).isPwd
            /\ addr.authorized = "none"
            /\ ~addr.homeDir
            /\ ~addr.authenticate)

\* C15: a password or public-key offer that every verifier rejects is
\* denied, and with the one error "denied" whichever verifier rejected it
\* and why.
C15_GenericDenial ==
    att.kind \in {"password", "publickey"} =>
        /\ (att.result = "deny") <=> (att.err # "nil")
        /\ att.result = "deny" => att.err = "denied"

\* A key offer both verifiers rejected, the second for want of the file.
C15_Witness ==
    /\ att.kind = "publickey"
    /\ att.result = "deny"
    /\ att.consulted = <<"static", "home">>
    /\ ~homeFiles[att.user].exists

\* C16: the client configured from ProxyURL() of a server built from a
\* principal:password URI carries a password, and the server's password
\* verifier accepts its principal and password; the verifier accepts exactly
\* the configured principal and password.
C16_ProxyURLAccepted ==
    /\ (client.built /\ ParseUser(addr.authority).isPwd) =>
          /\ client.isPwd
          /\ PasswordCallback(client.User, client.pwd) = "nil"
    /\ att.kind = "password" =>
          ((att.result = "allow") <=>
              /\ att.user = ParseUser(addr.authority).user
              /\ att.password = ParseUser(addr.authority).pwd)

\* ------------------------------------------------ SpecAllow: properties

\* The rule of the permission engine, on a document, a resource and an
\* argument.
ReferenceRule(p, req, args) ==
    IF req \notin DOMAIN p THEN FALSE
    ELSE IF ~p[req].Allows.nil
         THEN \E i \in DOMAIN p[req].Allows.items : p[req].Allows.items[i] = args
    ELSE IF ~p[req].Blocks.nil
         THEN \A i \in DOMAIN p[req].Blocks.items : p[req].Blocks.items[i] # args
    ELSE p[req].Default

\* C17: Allow(resource, argument) is the reference rule: deny without a
\* rule; with an allow-list, allow iff the argument is an entry of it; else
\* with a block-list, allow iff the argument is no entry of it; else the
\* rule's default.
C17_AllowIsReferenceRule ==
    \A c \in Callers :
        call[c].pc = "ret" =>
            ((call[c].result = "allow")
                <=> ReferenceRule(permissions.doc, call[c].req, call[c].args))

\* Denied by an allow-list that is present and empty, whatever the
\* block-list and the default say.
C17_Witness ==
    \E c \in Callers :
        /\ call[c].pc = "ret"
        /\ call[c].result = "deny"
        /\ call[c].req \in DOMAIN permissions.doc
        /\ permissions.doc[call[c].req] =
              [Default |-> TRUE, Allows |-> [nil |-> FALSE, items |-> <<>>],
               Blocks |-> [nil |-> FALSE, items |-> <<"a">>]]
        /\ call[c].args = "b"

\* ------------------------------------------------- SpecPerm: properties

\* C18: when the reload of an Allow call finds no file, the call returns
\* deny and the cache holds no document afterwards, so that the next call
\* (perm == nil) reloads.
C18_MissingFileEmptiesCache ==
    [][\A c \in Callers :
          (call[c].pc = "read" /\ call'[c].pc = "ret")
            => (call'[c].result = "deny" /\ permissions'.nil)]_vars

\* C19: a call that returns allow answers from a document whose load was
\* stamped no longer than Period before the call's staleness check.
C19_AllowOnlyFromFreshDocument ==
    \A c \in Callers :
        call[c].result = "allow" =>
            /\ ~call[c].perm.nil
            /\ call[c].latest # ZeroTime
            /\ call[c].latest <= call[c].checkedAt
            /\ call[c].checkedAt - call[c].latest <= Period
            /\ PermissionsAllow(call[c].perm.doc, call[c].req, call[c].args)

\* An allow at the last moment of the document's freshness, the file being
\* gone by then.
C19_Witness ==
    \E c \in Callers :
        /\ call[c].result = "allow"
        /\ call[c].checkedAt - call[c].latest = Period
        /\ file.kind = "absent"

\* C20: a reload that finds the file stamps the cache with the time of the
\* reload, and no Allow call reads the file again until more than Period
\* has passed since the stamp.
C20_ReloadRateLimited ==
    [][\A c \in Callers :
          /\ (call[c].pc = "store" /\ call'[c].pc = "check2") => latestTime' = now
          /\ (call[c].pc = "read" /\ call'[c].pc # "read" /\ latestTime # ZeroTime)
                => now - latestTime > Period]_vars

\* ------------------------------ SpecPool, SpecPoolFair: sharing a pool

\* Caller a holds a stream that an earlier, successful Dial or Exec of its
\* own opened on the client cli[a].
HoldsStream(a) ==
    /\ pc[a] = "ret"
    /\ op[a] \in {"DialContext", "CommandDialContext"}
    /\ res[a] = "ok"

\* C21: when a Dial, Listen or Exec of one caller returns an error that is
\* not the transport found dead, the client behind every stream another
\* caller opened earlier, open before the step, is open after it.
C21_FailureSparesOtherStreams ==
    [][\A b \in Callers : \A a \in Callers \ {b} :
          (/\ pc[b] \in {"use", "start"}
           /\ op[b] \in UsingOps
           /\ pc'[b] = "ret"
           /\ res'[b] \in Errors
           /\ ErrKind(res'[b]) # "transport"
           /\ HoldsStream(a)
           /\ hstate[cli[a]] = "open") =>
              hstate'[cli[a]] = "open"]_vars

\* C22: a Dial, Listen, Exec or Acquire whose context has been cancelled
\* eventually returns, and with a cancellation error, whatever the other
\* callers do.
C22_CancelUnblocks ==
    \A c \in Callers :
        (ctxDone[c] /\ pc[c] \in PoolGetPhases \cup {"use", "start"})
            ~> (pc[c] = "ret" /\ res[c] \in {"ctx", "canceled"})

\* ------------------------------------------------- SpecConf: properties

\* C23: a construction that was given a duration parameter whose value is
\* not a valid duration string has returned an error: the client for a
\* non-empty timeout, the server for the permissions_file_update_period of
\* a permission file it is configured with.
C23_InvalidDurationFails ==
    /\ (/\ client.called
        /\ addr.timeout.present
        /\ addr.timeout.value # <<>>
        /\ ~ParseDuration(addr.timeout.value).ok) =>
          client.err # "nil"
    /\ (/\ srv.called
        /\ addr.homeDir
        /\ addr.permissionsFileName
        /\ addr.period.present
        /\ ~ParseDuration(addr.period.value).ok) =>
          srv.err # "nil"

\* ----------------------------------------------- SpecListen: properties

\* An address made of nothing before its port: ":port" or "[]:port", the
\* port holding no ':' and no bracket.
PortOnly(t, p) ==
    /\ t \in {<<":">> \o p, <<"[", "]", ":">> \o p}
    /\ \A i \in DOMAIN p : p[i] \notin {":", "[", "]"}

\* C24: the address Listen sends to the remote end is 0.0.0.0 with the same
\* port when the address given has an empty host and a port, and the
\* address given otherwise.
C24_ListenAddress ==
    att.kind = "listen" =>
        LET t == addr.address
            Ports == {SubSeq(t, k, Len(t)) : k \in 1..(Len(t) + 1)}
        IN  IF \E p \in Ports : PortOnly(t, p)
               THEN \E p \in Ports :
                       /\ PortOnly(t, p)
                       /\ att.address = AnyHost \o <<":">> \o p
               ELSE att.address = t

\* C24 witness: Listen was given ":8" and has sent "0.0.0.0:8".
C24_Witness ==
    /\ att.kind = "listen"
    /\ addr.address = <<":", "8">>
    /\ att.address = AnyHost \o <<":", "8">>

\* ------------------------------------------ SpecPerm: the cache's lock

\* A reload of caller c is in flight: update has read the file, or is about
\* to, and has not stored yet.
Reloading(c) == call[c].pc \in {"read", "store"}

\* C29: the cached document and its stamp change only together, in the one
\* step of one reload that writes what it read and the time it is; a call
\* that answers from the cache has taken the document and the stamp from
\* one state of the cache; and while a reload is in flight, reading the
\* file changes nothing of the cache and the get of every other call can
\* be taken.
C29_SnapshotConsistent ==
    [][/\ (permissions' # permissions \/ latestTime' # latestTime) =>
             \E c \in Callers :
                /\ call[c].pc = "store"
                /\ permissions' = call[c].read
                /\ latestTime' = now
       /\ \A c \in Callers :
             /\ (call'[c].pc = "ret" /\ call[c].pc \in {"check", "check2"}
                 /\ ~NeedsUpdate(permissions, latestTime, now)) =>
                   (call'[c].perm = permissions /\ call'[c].latest = latestTime)
             /\ (call[c].pc = "read" /\ call'[c].pc # "read") =>
                   (permissions' = permissions /\ latestTime' = latestTime)
             /\ Reloading(c) =>
                   \A d \in Callers \ {c} :
                      call[d].pc \in {"check", "check2"} =>
                         ENABLED (check(d) \/ checkAgain(d))]_vars

\* C29 witness: a call has answered from the cached document, taken with
\* the stamp of the reload that stored it, while another call's reload is
\* in flight.
C29_Witness ==
    \E c \in Callers : \E d \in Callers \ {c} :
        /\ Reloading(c)
        /\ call[d].pc = "ret"
        /\ call[d].result = "allow"
        /\ call[d].perm = permissions
        /\ call[d].latest = latestTime
        /\ call[d].checkedAt = now

\* ------------------------------------------------- SpecPool: Close

\* The places of a call that is neither running an operation nor holding
\* its result: before a call, after its return, and with a listener.
Quiet == {"idle", "ret", "listening"}

\* C27: when Close returns while no other caller is in an operation, no
\* handle is in the idle set and every handle still open is held by a
\* listener or a user; and once Close has returned, a handle that is
\* released does not go into the idle set open.
C27_CloseDestroysIdle ==
    [][/\ \A c \in Callers :
             (/\ pc[c] = "closing"
              /\ pc'[c] = "ret"
              /\ \A d \in Callers \ {c} : pc[d] \in Quiet) =>
                 \A h \in PoolHandles :
                    /\ pool'[h] = 0
                    /\ hstate'[h] \in {"open", "dead"} => PoolHolders(h)' # {}
       /\ (\E c \in Callers : pc[c] = "ret" /\ op[c] = "Close") =>
             \A h \in PoolHandles :
                pool'[h] > pool[h] => hstate'[h] = "closed"]_vars

\* ------------------------------------------------- SpecHome: properties

\* What the server holds for principal u: its two files and its cache.
Of(u) == <<homeFiles[u], file[u], permissions[u], latestTime[u]>>

\* The outcome of a key offer or an exec request of principal u, from what
\* the server holds for u alone.
OutcomeFor(u, kind, key) ==
    IF kind = "publickey"
       THEN IF homeFiles[u].exists /\ key \in homeFiles[u].keys THEN "allow" ELSE "deny"
       ELSE IF AllowOnce(permissions[u], latestTime[u], file[u], now).ok
               THEN "allow" ELSE "deny"

\* C26: a key offer of a principal whose authorized-keys file is missing or
\* unreadable is rejected with the ordinary error, and a permission check
\* that finds the principal's permission file missing or unreadable returns
\* deny; the server's configuration stays as it was, nothing held for
\* another principal changes, and every request is decided by what is held
\* for its own principal alone.
C26_MissingFileIsLocal ==
    [][(att' # att /\ att'.kind \in {"publickey", "permission"}) =>
         LET u == att'.user
         IN  /\ (att'.kind = "publickey" /\ ~homeFiles[u].exists) =>
                   (att'.result = "deny" /\ att'.err = "denied")
             /\ (att'.kind = "permission" /\ att'.consulted[1] \in {"absent", "unreadable"}) =>
                   (att'.result = "deny" /\ att'.err = "nil")
             /\ srv' = srv
             /\ \A v \in KeyPrincipals \ {u} : Of(v)' = Of(v)
             /\ att'.result = OutcomeFor(u, att'.kind, att'.key)]_vars

\* C26 witness: principal "v" has been allowed its exec while "u" has no
\* authorized-keys file, no readable permission file, and an empty cache
\* left by a check that found its file unreadable.
C26_Witness ==
    /\ att.kind = "permission"
    /\ att.user = <<"v">>
    /\ att.result = "allow"
    /\ ~homeFiles[<<"u">>].exists
    /\ file[<<"u">>].kind \in {"absent", "unreadable"}
    /\ permissions[<<"u">>].nil
    /\ latestTime[<<"u">>] # ZeroTime

====
